---- MODULE Spec2Model ----
(***************************************************************************)
(* Eigentask API: the entity store of tasks and task sessions, the task    *)
(* service, the session scheduling service and its overlap checker.        *)
(*                                                                         *)
(* Times are integer ticks, Minute ticks to the minute.  An optional       *)
(* value (a Python None / SQL NULL, or a value) is None or Some(v); a      *)
(* partial payload (model_dump(exclude_unset=True)) is a function whose    *)
(* DOMAIN is the set of the fields the caller supplied.                    *)
(***************************************************************************)
EXTENDS Integers, Sequences, FiniteSets, TLC

VARIABLES
    tasks,            \* table tasks: id -> row
    sessions,         \* table task_sessions: id -> row
    next_task_id,     \* autoincrement of tasks.id
    next_session_id,  \* autoincrement of task_sessions.id
    last,             \* the request just handled and its outcome, until it is answered
    txn,              \* in-flight create-session requests (interleaved runs only)
    redis,            \* Redis: session id -> stored token bundle
    session,          \* browser -> the signed session cookie of SessionMiddleware
    next_sid,         \* the next opaque session id new_sid() hands out
    next_state,       \* the next state / nonce / verifier login generates
    now,              \* the clock, in ticks
    credentials       \* what the request being handled presented, and the Redis it found

store == <<tasks, sessions, next_task_id, next_session_id>>
authvars == <<redis, session, next_sid, next_state, now, credentials>>
vars == <<tasks, sessions, next_task_id, next_session_id, last, txn,
          redis, session, next_sid, next_state, now, credentials>>

----------------------------------------------------------------------------
\* Bounds of the model

MaxTaskId == 2
MaxSessionId == 3
MaxTime == 3
Minute == 3
MaxTxn == 2
MaxSid == 2
MaxState == 2
MaxNow == 1
Skew == 1

Users == {"u1", "u2"}
TaskIds == 1..MaxTaskId
SessionIds == 1..MaxSessionId
Times == 0..MaxTime
Browsers == {"b1", "b2"}
Sids == 1..MaxSid
States == 1..MaxState

----------------------------------------------------------------------------
\* Values

None == <<>>
Some(v) == <<v>>
Val(o) == o[1]

Get(data, key, default) == IF key \in DOMAIN data THEN data[key] ELSE default

BACKLOG == "BACKLOG"
PLANNED == "PLANNED"
TASK_COMPLETED == "COMPLETED"
REMOVED == "REMOVED"
TaskStatus == {BACKLOG, PLANNED, TASK_COMPLETED, REMOVED}

INCOMPLETE == "INCOMPLETE"
COMPLETED == "COMPLETED"
TaskSessionStatus == {INCOMPLETE, COMPLETED}

\* Outcomes of a request.  The routers turn LookupError / a missing row into
\* 404 (NotFound) and ValueError into 400 (Conflict for the overlap message,
\* ValidationError for the others); a payload the schema refuses never reaches
\* the service (RequestValidationError, 422); any other exception is not caught.
OK == "ok"
NotFound == "NotFound"
Conflict == "Conflict"
ValidationError == "ValidationError"
RequestValidationError == "RequestValidationError"
MultipleResultsFound == "MultipleResultsFound"
TypeError == "TypeError"
IntegrityError == "IntegrityError"
StaleDataError == "StaleDataError"

Remove(f, k) == [i \in DOMAIN f \ {k} |-> f[i]]

----------------------------------------------------------------------------
\* Request schemas

\* SessionCreate: scheduled_start_at is required; the other two default to None.
SessionCreateValid(p) ==
    /\ ~(p.duration_minutes # None /\ Val(p.duration_minutes) <= 0)
    /\ ~(p.scheduled_end_at = None /\ p.duration_minutes = None)
    /\ ~(p.scheduled_end_at # None /\ Val(p.scheduled_end_at) <= p.scheduled_start_at)

\* SessionUpdate: an attribute that was not supplied reads as None.
SessionUpdateValid(data) ==
    LET start == Get(data, "scheduled_start_at", None)
        end == Get(data, "scheduled_end_at", None)
    IN ~(start # None /\ end # None /\ Val(end) <= Val(start))

\* str.strip() on a title, a sequence of characters
RECURSIVE StripLeft(_)
StripLeft(s) == IF s # <<>> /\ Head(s) = " " THEN StripLeft(Tail(s)) ELSE s

RECURSIVE StripRight(_)
StripRight(s) ==
    IF s # <<>> /\ s[Len(s)] = " " THEN StripRight(SubSeq(s, 1, Len(s) - 1)) ELSE s

Strip(s) == StripRight(StripLeft(s))

\* Mutant: the status of the payload is dropped
TaskCreateDefaultsIgnoringStatus(p) ==
    [title |-> p.title,
     description |-> Get(p, "description", None),
     status |-> BACKLOG,
     due_at |-> p.due_at,
     planned_start_at |-> Get(p, "planned_start_at", None),
     planned_end_at |-> Get(p, "planned_end_at", None),
     planned_duration |-> Get(p, "planned_duration", None)]

\* TaskCreate: title and due_at are required, the other fields have defaults
TaskCreateDefaults(p) ==
    [title |-> p.title,
     description |-> Get(p, "description", None),
     status |-> Get(p, "status", BACKLOG),
     due_at |-> p.due_at,
     planned_start_at |-> Get(p, "planned_start_at", None),
     planned_end_at |-> Get(p, "planned_end_at", None),
     planned_duration |-> Get(p, "planned_duration", None)]

TaskCreateValid(p) ==
    /\ {"title", "due_at"} \subseteq DOMAIN p
    /\ Strip(p.title) # <<>>
    /\ LET q == TaskCreateDefaults(p)
       IN /\ ~(q.planned_duration # None /\ Val(q.planned_duration) <= 0)
          /\ ~(/\ q.planned_start_at # None
               /\ q.planned_end_at # None
               /\ Val(q.planned_end_at) < Val(q.planned_start_at))

TaskUpdateValid(data) ==
    LET title == Get(data, "title", None)
        duration == Get(data, "planned_duration", None)
        start == Get(data, "planned_start_at", None)
        end == Get(data, "planned_end_at", None)
    IN /\ ~(title # None /\ Strip(Val(title)) = <<>>)
       /\ ~(duration # None /\ Val(duration) <= 0)
       /\ ~(start # None /\ end # None /\ Val(end) < Val(start))

\* The payload the service receives: the title validators return the stripped title.
TaskCreateParsed(p) == [TaskCreateDefaults(p) EXCEPT !.title = Strip(p.title)]

TaskUpdateParsed(data) ==
    [f \in DOMAIN data |->
        IF f = "title" /\ data[f] # None THEN Some(Strip(Val(data[f]))) ELSE data[f]]

----------------------------------------------------------------------------
\* Task service

\* int(x / y) of Python: the quotient truncated towards zero
TruncDiv(x, y) == IF x >= 0 THEN x \div y ELSE -((-x) \div y)

\* Mutant: the duration is passed through, never derived
CoercePassesThrough(planned_start_at, planned_end_at, planned_duration) ==
    [ok |-> TRUE, value |-> planned_duration]

\* Mutant: a supplied duration is never compared with the interval
CoerceWithoutCheck(planned_start_at, planned_end_at, planned_duration) ==
    IF planned_start_at # None /\ planned_end_at # None /\ planned_duration = None
    THEN [ok |-> TRUE,
          value |-> Some(TruncDiv(Val(planned_end_at) - Val(planned_start_at), Minute))]
    ELSE [ok |-> TRUE, value |-> planned_duration]

\* _coerce_planned_duration: [ok |-> FALSE] stands for the ValueError
_coerce_planned_duration(planned_start_at, planned_end_at, planned_duration) ==
    IF planned_start_at # None /\ planned_end_at # None
    THEN LET minutes == TruncDiv(Val(planned_end_at) - Val(planned_start_at), Minute)
         IN IF planned_duration = None
            THEN [ok |-> TRUE, value |-> Some(minutes)]
            ELSE IF Val(planned_duration) # minutes
                 THEN [ok |-> FALSE, value |-> None]
                 ELSE [ok |-> TRUE, value |-> planned_duration]
    ELSE [ok |-> TRUE, value |-> planned_duration]

\* Mutant: the task of that id, whoever owns it
GetTaskAnyOwner(task_id, created_by_sub) ==
    IF task_id \in DOMAIN tasks THEN Some(task_id) ELSE None

\* get_task_for_user: the id of the row, or None
get_task_for_user(task_id, created_by_sub) ==
    IF task_id \in DOMAIN tasks /\ tasks[task_id].created_by_sub = created_by_sub
    THEN Some(task_id)
    ELSE None

\* Mutant: only the tasks that have a session get an entry
CountsWithoutEmptyTasks(sess, task_ids) ==
    [tid \in {t \in task_ids : \E i \in DOMAIN sess : sess[i].task_id = t} |->
        <<Cardinality({i \in DOMAIN sess : sess[i].task_id = tid}),
          Cardinality({i \in DOMAIN sess :
                          sess[i].task_id = tid /\ sess[i].status = COMPLETED})>>]

\* get_session_counts_for_tasks (services/sessions.py): the grouped counts,
\* and <<0, 0>> for the requested ids the query has no group for
get_session_counts_for_tasks(sess, task_ids) ==
    [tid \in task_ids |->
        <<Cardinality({i \in DOMAIN sess : sess[i].task_id = tid}),
          Cardinality({i \in DOMAIN sess :
                          sess[i].task_id = tid /\ sess[i].status = COMPLETED})>>]

\* No request is being handled
Idle ==
    [op |-> "idle", sub |-> "", task_id |-> 0, session_id |-> 0, payload |-> <<>>,
     outcome |-> OK, result |-> <<>>, task_titles |-> <<>>, counts |-> <<>>,
     before |-> <<>>]

\* A request, its outcome and the tables it found (session_id: of a created
\* session, the one it is given; result: the ids of the rows a read returns;
\* task_titles: the task title beside each row of the timeline; counts: the
\* session counts of a task response, task id -> <<total, completed>>)
Request(op, sub, task_id, session_id, payload, outcome) ==
    [op |-> op, sub |-> sub, task_id |-> task_id, session_id |-> session_id,
     payload |-> payload, outcome |-> outcome, result |-> <<>>,
     task_titles |-> <<>>, counts |-> <<>>,
     before |-> [tasks |-> tasks, sessions |-> sessions]]

\* POST /tasks/: create_task, create_task_for_user
CreateTask(sub, payload) ==
    /\ last = Idle
    /\ IF ~TaskCreateValid(payload)
       THEN /\ last' = Request("create_task", sub, 0, 0, payload, RequestValidationError)
            /\ UNCHANGED store
       ELSE LET data == TaskCreateParsed(payload)
                duration == _coerce_planned_duration(
                                data.planned_start_at, data.planned_end_at,
                                data.planned_duration)
            IN IF ~duration.ok
               THEN /\ last' = Request("create_task", sub, 0, 0, payload, ValidationError)
                    /\ UNCHANGED store
               ELSE /\ next_task_id <= MaxTaskId
                    /\ tasks' = tasks @@ (next_task_id :>
                           [title |-> data.title,
                            description |-> data.description,
                            status |-> data.status,
                            due_at |-> Some(data.due_at),
                            planned_start_at |-> data.planned_start_at,
                            planned_end_at |-> data.planned_end_at,
                            planned_duration |-> duration.value,
                            created_by_sub |-> sub])
                    /\ next_task_id' = next_task_id + 1
                    /\ last' = [Request("create_task", sub, next_task_id, 0, payload, OK)
                                   EXCEPT !.counts = get_session_counts_for_tasks(
                                                         sessions, {next_task_id})]
                    /\ UNCHANGED <<sessions, next_session_id>>
    /\ UNCHANGED txn

\* The row of update_task_for_user after the setattr loop and the coercion
TaskFields ==
    {"title", "description", "status", "due_at",
     "planned_start_at", "planned_end_at", "planned_duration"}

\* Mutant: an optional field the payload does not supply is cleared
MergedTaskReplacing(task, data) ==
    [f \in DOMAIN task |->
        IF f \in TaskFields /\ f \in DOMAIN data
        THEN (IF f \in {"title", "status"}
              THEN (IF data[f] = None THEN task[f] ELSE Val(data[f]))
              ELSE data[f])
        ELSE IF f \in TaskFields \ {"title", "status"} THEN None
        ELSE task[f]]

\* A None for a NOT NULL column (title, status) stays in the session's
\* pending row until the commit refuses it; NullViolation says so.
MergedTask(task, data) ==
    [f \in DOMAIN task |->
        IF f \in TaskFields /\ f \in DOMAIN data
        THEN (IF f \in {"title", "status"}
              THEN (IF data[f] = None THEN task[f] ELSE Val(data[f]))
              ELSE data[f])
        ELSE task[f]]

NullViolation(data, columns) == \E f \in columns : f \in DOMAIN data /\ data[f] = None

\* PATCH/PUT /tasks/{task_id}: update_task, update_task_for_user
UpdateTask(sub, task_id, payload) ==
    /\ last = Idle
    /\ IF ~TaskUpdateValid(payload)
       THEN /\ last' = Request("update_task", sub, task_id, 0, payload, RequestValidationError)
            /\ UNCHANGED store
       ELSE IF get_task_for_user(task_id, sub) = None
       THEN /\ last' = Request("update_task", sub, task_id, 0, payload, NotFound)
            /\ UNCHANGED store
       ELSE LET data == TaskUpdateParsed(payload)
                merged == MergedTask(tasks[task_id], data)
                duration == _coerce_planned_duration(
                                merged.planned_start_at, merged.planned_end_at,
                                merged.planned_duration)
            IN IF ~duration.ok
               THEN /\ last' = Request("update_task", sub, task_id, 0, payload, ValidationError)
                    /\ UNCHANGED store
               ELSE IF NullViolation(data, {"title", "status"})
               THEN /\ last' = Request("update_task", sub, task_id, 0, payload, IntegrityError)
                    /\ UNCHANGED store
               ELSE /\ tasks' = [tasks EXCEPT ![task_id] =
                                    [merged EXCEPT !.planned_duration = duration.value]]
                    /\ last' = [Request("update_task", sub, task_id, 0, payload, OK)
                                   EXCEPT !.counts = get_session_counts_for_tasks(
                                                         sessions, {task_id})]
                    /\ UNCHANGED <<sessions, next_task_id, next_session_id>>
    /\ UNCHANGED txn


\* Mutant: the sessions of a deleted task stay
CascadeDeleteNone(sess, task_id) == sess

\* Task.sessions is cascade="all, delete-orphan", task_sessions.task_id is
\* ON DELETE CASCADE: the sessions of a deleted task go with it.
CascadeDelete(sess, task_id) ==
    [i \in {j \in DOMAIN sess : sess[j].task_id # task_id} |-> sess[i]]

\* DELETE /tasks/{task_id}: delete_task, delete_task_for_user
DeleteTask(sub, task_id) ==
    /\ last = Idle
    /\ IF get_task_for_user(task_id, sub) = None
       THEN last' = Request("delete_task", sub, task_id, 0, <<>>, NotFound)
            /\ UNCHANGED store
       ELSE /\ tasks' = Remove(tasks, task_id)
            /\ sessions' = CascadeDelete(sessions, task_id)
            /\ last' = Request("delete_task", sub, task_id, 0, <<>>, OK)
            /\ UNCHANGED <<next_task_id, next_session_id>>
    /\ UNCHANGED txn

\* The ids of a set in descending order
RECURSIVE Descending(_)
Descending(ids) ==
    IF ids = {} THEN <<>>
    ELSE LET top == CHOOSE i \in ids : \A j \in ids : j <= i
         IN <<top>> \o Descending(ids \ {top})

\* Mutant: oldest first
RECURSIVE Ascending(_)
Ascending(ids) ==
    IF ids = {} THEN <<>>
    ELSE LET low == CHOOSE i \in ids : \A j \in ids : i <= j
         IN <<low>> \o Ascending(ids \ {low})

\* Mutant: the list is ordered by ascending id
ListTasksOldestFirst(tsk, created_by_sub, limit, offset) ==
    LET all == Ascending({t \in DOMAIN tsk : tsk[t].created_by_sub = created_by_sub})
    IN SubSeq(all, offset + 1, IF offset + limit < Len(all) THEN offset + limit ELSE Len(all))

\* list_tasks_for_user: ORDER BY id DESC LIMIT limit OFFSET offset
list_tasks_for_user(tsk, created_by_sub, limit, offset) ==
    LET all == Descending({t \in DOMAIN tsk : tsk[t].created_by_sub = created_by_sub})
    IN SubSeq(all, offset + 1, IF offset + limit < Len(all) THEN offset + limit ELSE Len(all))

\* GET /tasks/: get_tasks; limit must be in 1..500 and offset >= 0
GetTasks(sub, limit, offset) ==
    LET query == [limit |-> limit, offset |-> offset]
    IN /\ last = Idle
       /\ IF limit < 1 \/ limit > 500 \/ offset < 0
          THEN last' = Request("get_tasks", sub, 0, 0, query, RequestValidationError)
          ELSE LET rows == list_tasks_for_user(tasks, sub, limit, offset)
               IN last' = [Request("get_tasks", sub, 0, 0, query, OK)
                              EXCEPT !.result = rows,
                                     !.counts = get_session_counts_for_tasks(
                                                    sessions, {rows[k] : k \in DOMAIN rows})]
       /\ UNCHANGED <<store, txn>>

\* GET /tasks/{task_id}: get_task
GetTask(sub, task_id) ==
    /\ last = Idle
    /\ IF get_task_for_user(task_id, sub) = None
       THEN last' = Request("get_task", sub, task_id, 0, <<>>, NotFound)
       ELSE last' = [Request("get_task", sub, task_id, 0, <<>>, OK)
                        EXCEPT !.result = <<task_id>>,
                               !.counts = get_session_counts_for_tasks(sessions, {task_id})]
    /\ UNCHANGED <<store, txn>>

----------------------------------------------------------------------------
\* Session scheduling service

\* _normalize_create_times: [ok |-> FALSE] stands for the ValueError
\* Mutant: a duration, when there is one, wins over the explicit end
NormalizePrefersDuration(payload) ==
    IF payload.duration_minutes # None /\ Val(payload.duration_minutes) > 0
    THEN [ok |-> TRUE, start_at |-> payload.scheduled_start_at,
          end_at |-> payload.scheduled_start_at + Val(payload.duration_minutes) * Minute]
    ELSE IF payload.scheduled_end_at # None
    THEN [ok |-> TRUE, start_at |-> payload.scheduled_start_at,
          end_at |-> Val(payload.scheduled_end_at)]
    ELSE [ok |-> FALSE, start_at |-> 0, end_at |-> 0]

_normalize_create_times(payload) ==
    IF payload.scheduled_end_at # None
    THEN [ok |-> TRUE, start_at |-> payload.scheduled_start_at,
          end_at |-> Val(payload.scheduled_end_at)]
    ELSE IF payload.duration_minutes # None /\ Val(payload.duration_minutes) > 0
    THEN [ok |-> TRUE, start_at |-> payload.scheduled_start_at,
          end_at |-> payload.scheduled_start_at + Val(payload.duration_minutes) * Minute]
    ELSE [ok |-> FALSE, start_at |-> 0, end_at |-> 0]


\* Mutant: only a session that starts inside the candidate counts
OverlapRowStartInside(row, start_at, end_at) ==
    row.scheduled_start_at < end_at /\ row.scheduled_start_at >= start_at

\* The WHERE clause of _sessions_overlap for one row of task_sessions JOIN tasks
OverlapRow(row, start_at, end_at) ==
    row.scheduled_start_at < end_at /\ row.scheduled_end_at > start_at

\* Mutant: the sessions of every user are compared
OverlapRowsAnyOwner(tsk, sess, created_by_sub, start_at, end_at, exclude_session_id) ==
    {i \in DOMAIN sess :
        /\ sess[i].task_id \in DOMAIN tsk
        /\ OverlapRow(sess[i], start_at, end_at)
        /\ (exclude_session_id # None => i # Val(exclude_session_id))}

\* The rows _sessions_overlap selects, read from the tables tsk and sess;
\* exclude_session_id is None or Some(id)
OverlapRows(tsk, sess, created_by_sub, start_at, end_at, exclude_session_id) ==
    {i \in DOMAIN sess :
        /\ sess[i].task_id \in DOMAIN tsk
        /\ tsk[sess[i].task_id].created_by_sub = created_by_sub
        /\ OverlapRow(sess[i], start_at, end_at)
        /\ (exclude_session_id # None => i # Val(exclude_session_id))}

\* result.scalar_one_or_none() is not None: TRUE or FALSE in a tuple, or the
\* exception scalar_one_or_none raises when the statement returns several rows
ScalarOneOrNone(rows) ==
    IF rows = {} THEN [raised |-> FALSE, found |-> FALSE]
    ELSE IF Cardinality(rows) = 1 THEN [raised |-> FALSE, found |-> TRUE]
    ELSE [raised |-> TRUE, found |-> FALSE]

_sessions_overlap(tsk, sess, created_by_sub, start_at, end_at, exclude_session_id) ==
    ScalarOneOrNone(OverlapRows(tsk, sess, created_by_sub, start_at, end_at,
                                exclude_session_id))

\* select(func.count(TaskSession.id)).where(TaskSession.task_id == task_id)
SessionCount(sess, task_id) == Cardinality({i \in DOMAIN sess : sess[i].task_id = task_id})

get_session_for_user(task_id, session_id, created_by_sub) ==
    IF /\ session_id \in DOMAIN sessions
       /\ sessions[session_id].task_id = task_id
       /\ task_id \in DOMAIN tasks
       /\ tasks[task_id].created_by_sub = created_by_sub
    THEN Some(session_id)
    ELSE None


\* Mutant: the owner is not compared
TaskMissingAnyOwner(task_id, created_by_sub) == task_id \notin DOMAIN tasks

\* create_session_for_task: task is None or task.created_by_sub != created_by_sub
TaskMissing(task_id, created_by_sub) ==
    task_id \notin DOMAIN tasks \/ tasks[task_id].created_by_sub # created_by_sub


\* Mutant: every created session sets PLANNED
FirstSessionStatusAlways(task, is_first_session) == PLANNED

\* Mutant: only a BACKLOG task is moved to PLANNED
FirstSessionStatusFromBacklog(task, is_first_session) ==
    IF is_first_session /\ task.status = BACKLOG THEN PLANNED ELSE task.status

\* The status a first session gives its task
FirstSessionStatus(task, is_first_session) ==
    IF is_first_session THEN PLANNED ELSE task.status

\* POST /tasks/{task_id}/sessions: create_session, create_session_for_task
CreateSession(sub, task_id, payload) ==
    /\ last = Idle
    /\ IF ~SessionCreateValid(payload)
       THEN /\ last' = Request("create_session", sub, task_id, 0, payload,
                               RequestValidationError)
            /\ UNCHANGED store
       ELSE IF TaskMissing(task_id, sub)
       THEN /\ last' = Request("create_session", sub, task_id, 0, payload, NotFound)
            /\ UNCHANGED store
       ELSE LET times == _normalize_create_times(payload)
                overlap == _sessions_overlap(tasks, sessions, sub,
                                             times.start_at, times.end_at, None)
                is_first_session == SessionCount(sessions, task_id) = 0
            IN IF ~times.ok
               THEN /\ last' = Request("create_session", sub, task_id, 0, payload,
                                       ValidationError)
                    /\ UNCHANGED store
               ELSE IF overlap.raised
               THEN /\ last' = Request("create_session", sub, task_id, 0, payload,
                                       MultipleResultsFound)
                    /\ UNCHANGED store
               ELSE IF overlap.found
               THEN /\ last' = Request("create_session", sub, task_id, 0, payload, Conflict)
                    /\ UNCHANGED store
               ELSE /\ next_session_id <= MaxSessionId
                    /\ sessions' = sessions @@ (next_session_id :>
                           [task_id |-> task_id,
                            scheduled_start_at |-> times.start_at,
                            scheduled_end_at |-> times.end_at,
                            status |-> INCOMPLETE])
                    /\ tasks' = [tasks EXCEPT ![task_id].status =
                                    FirstSessionStatus(tasks[task_id], is_first_session)]
                    /\ next_session_id' = next_session_id + 1
                    /\ last' = Request("create_session", sub, task_id, next_session_id,
                                       payload, OK)
                    /\ UNCHANGED next_task_id
    /\ UNCHANGED txn

\* The interval update_session_for_user checks and stores: the supplied
\* fields, the session's own values for the others
ResultingStart(task_session, data) ==
    Get(data, "scheduled_start_at", Some(task_session.scheduled_start_at))

ResultingEnd(task_session, data) ==
    Get(data, "scheduled_end_at", Some(task_session.scheduled_end_at))

\* Mutant: every update runs the interval and overlap checks
TimesSuppliedAlways(data) == TRUE

TimesSupplied(data) ==
    "scheduled_start_at" \in DOMAIN data \/ "scheduled_end_at" \in DOMAIN data


\* Mutant: an empty interval passes
EndBeforeStart(new_start, new_end) == Val(new_end) < Val(new_start)

\* update_session_for_user: new_end <= new_start
EndNotAfterStart(new_start, new_end) == Val(new_end) <= Val(new_start)


\* Mutant: the updated session is compared with itself
UpdateExclusionNone(session_id) == None

\* The session the update excludes from its overlap check
UpdateExclusion(session_id) == Some(session_id)

\* Mutant: a COMPLETED session stays COMPLETED
ResultingStatusForwardOnly(task_session, data) ==
    IF "status" \in DOMAIN data /\ data.status # None /\ task_session.status # COMPLETED
    THEN Val(data.status)
    ELSE task_session.status

\* if "status" in data: task_session.status = data["status"]  (a None is
\* refused at the commit, see NullViolation)
ResultingStatus(task_session, data) ==
    IF "status" \in DOMAIN data /\ data.status # None
    THEN Val(data.status)
    ELSE task_session.status

\* PATCH /tasks/{task_id}/sessions/{session_id}: update_session, update_session_for_user
UpdateSession(sub, task_id, session_id, payload) ==
    /\ last = Idle
    /\ IF ~SessionUpdateValid(payload)
       THEN /\ last' = Request("update_session", sub, task_id, session_id, payload,
                               RequestValidationError)
            /\ UNCHANGED store
       ELSE IF get_session_for_user(task_id, session_id, sub) = None
       THEN /\ last' = Request("update_session", sub, task_id, session_id, payload, NotFound)
            /\ UNCHANGED store
       ELSE LET task_session == sessions[session_id]
                new_start == ResultingStart(task_session, payload)
                new_end == ResultingEnd(task_session, payload)
                overlap == _sessions_overlap(tasks, sessions, sub, Val(new_start),
                                             Val(new_end), UpdateExclusion(session_id))
                timed == IF TimesSupplied(payload)
                         THEN [task_session EXCEPT !.scheduled_start_at = Val(new_start),
                                                   !.scheduled_end_at = Val(new_end)]
                         ELSE task_session
                updated == [timed EXCEPT !.status = ResultingStatus(task_session, payload)]
            IN IF TimesSupplied(payload) /\ (new_start = None \/ new_end = None)
               THEN /\ last' = Request("update_session", sub, task_id, session_id, payload,
                                       TypeError)
                    /\ UNCHANGED store
               ELSE IF TimesSupplied(payload) /\ EndNotAfterStart(new_start, new_end)
               THEN /\ last' = Request("update_session", sub, task_id, session_id, payload,
                                       ValidationError)
                    /\ UNCHANGED store
               ELSE IF TimesSupplied(payload) /\ overlap.raised
               THEN /\ last' = Request("update_session", sub, task_id, session_id, payload,
                                       MultipleResultsFound)
                    /\ UNCHANGED store
               ELSE IF TimesSupplied(payload) /\ overlap.found
               THEN /\ last' = Request("update_session", sub, task_id, session_id, payload,
                                       Conflict)
                    /\ UNCHANGED store
               ELSE IF NullViolation(payload, {"status"})
               THEN /\ last' = Request("update_session", sub, task_id, session_id, payload,
                                       IntegrityError)
                    /\ UNCHANGED store
               ELSE /\ sessions' = [sessions EXCEPT ![session_id] = updated]
                    /\ last' = Request("update_session", sub, task_id, session_id, payload, OK)
                    /\ UNCHANGED <<tasks, next_task_id, next_session_id>>
    /\ UNCHANGED txn

\* Mutant: a task left without sessions goes back to BACKLOG
DeleteSessionReverting(sub, task_id, session_id) ==
    /\ last = Idle
    /\ IF get_session_for_user(task_id, session_id, sub) = None
       THEN /\ last' = Request("delete_session", sub, task_id, session_id, <<>>, NotFound)
            /\ UNCHANGED store
       ELSE /\ sessions' = Remove(sessions, session_id)
            /\ tasks' = IF \A i \in DOMAIN sessions' : sessions'[i].task_id # task_id
                        THEN [tasks EXCEPT ![task_id].status = BACKLOG]
                        ELSE tasks
            /\ last' = Request("delete_session", sub, task_id, session_id, <<>>, OK)
            /\ UNCHANGED <<next_task_id, next_session_id>>
    /\ UNCHANGED txn

\* DELETE /tasks/{task_id}/sessions/{session_id}: delete_session, delete_session_for_user
DeleteSession(sub, task_id, session_id) ==
    /\ last = Idle
    /\ IF get_session_for_user(task_id, session_id, sub) = None
       THEN /\ last' = Request("delete_session", sub, task_id, session_id, <<>>, NotFound)
            /\ UNCHANGED store
       ELSE /\ sessions' = Remove(sessions, session_id)
            /\ last' = Request("delete_session", sub, task_id, session_id, <<>>, OK)
            /\ UNCHANGED <<tasks, next_task_id, next_session_id>>
    /\ UNCHANGED txn

\* ORDER BY scheduled_start_at: the rows in ascending order of their start,
\* rows of equal start in any order
OrderedByStart(ids, sess) ==
    {q \in [1..Cardinality(ids) -> ids] :
        \A i \in DOMAIN q : \A j \in DOMAIN q :
            i < j => /\ q[i] # q[j]
                     /\ sess[q[i]].scheduled_start_at <= sess[q[j]].scheduled_start_at}

\* Mutant: the rows of the task, whoever owns it
ListSessionsForTaskAnyOwner(tsk, sess, task_id, created_by_sub, date_from, date_to, status) ==
    {i \in DOMAIN sess :
        /\ sess[i].task_id = task_id
        /\ date_from # None => sess[i].scheduled_end_at >= Val(date_from)
        /\ date_to # None => sess[i].scheduled_start_at <= Val(date_to)
        /\ status # None => sess[i].status = Val(status)}

\* Mutant: the date filters leave out the sessions on the boundary
ListSessionsForTaskExclusive(tsk, sess, task_id, created_by_sub, date_from, date_to, status) ==
    {i \in DOMAIN sess :
        /\ sess[i].task_id = task_id
        /\ task_id \in DOMAIN tsk
        /\ tsk[task_id].created_by_sub = created_by_sub
        /\ date_from # None => sess[i].scheduled_end_at > Val(date_from)
        /\ date_to # None => sess[i].scheduled_start_at < Val(date_to)
        /\ status # None => sess[i].status = Val(status)}

\* list_sessions_for_task: the rows its statement selects
list_sessions_for_task(tsk, sess, task_id, created_by_sub, date_from, date_to, status) ==
    {i \in DOMAIN sess :
        /\ sess[i].task_id = task_id
        /\ task_id \in DOMAIN tsk
        /\ tsk[task_id].created_by_sub = created_by_sub
        /\ date_from # None => sess[i].scheduled_end_at >= Val(date_from)
        /\ date_to # None => sess[i].scheduled_start_at <= Val(date_to)
        /\ status # None => sess[i].status = Val(status)}

\* Mutant: the sessions that touch the window are selected too
ListSessionsInRangeInclusive(tsk, sess, created_by_sub, from_at, to_at) ==
    {i \in DOMAIN sess :
        /\ sess[i].task_id \in DOMAIN tsk
        /\ tsk[sess[i].task_id].created_by_sub = created_by_sub
        /\ sess[i].scheduled_start_at <= to_at
        /\ sess[i].scheduled_end_at >= from_at}

\* list_sessions_in_range: the rows its statement selects
list_sessions_in_range(tsk, sess, created_by_sub, from_at, to_at) ==
    {i \in DOMAIN sess :
        /\ sess[i].task_id \in DOMAIN tsk
        /\ tsk[sess[i].task_id].created_by_sub = created_by_sub
        /\ sess[i].scheduled_start_at < to_at
        /\ sess[i].scheduled_end_at > from_at}

\* GET /tasks/{task_id}/sessions: get_sessions_for_task; session_status is
\* the text of the query parameter
GetSessionsForTask(sub, task_id, date_from, date_to, session_status) ==
    LET query == [date_from |-> date_from, date_to |-> date_to,
                  session_status |-> session_status]
    IN /\ last = Idle
       /\ IF session_status # None /\ Val(session_status) \notin TaskSessionStatus
          THEN last' = Request("list_sessions", sub, task_id, 0, query, ValidationError)
          ELSE \E rows \in OrderedByStart(
                              list_sessions_for_task(tasks, sessions, task_id, sub,
                                                     date_from, date_to, session_status),
                              sessions) :
                  last' = [Request("list_sessions", sub, task_id, 0, query, OK)
                              EXCEPT !.result = rows]
       /\ UNCHANGED <<store, txn>>

\* GET /sessions?from=&to=: get_sessions_in_range_endpoint
GetSessionsInRange(sub, from_at, to_at) ==
    LET query == [from_at |-> from_at, to_at |-> to_at]
    IN /\ last = Idle
       /\ IF from_at >= to_at
          THEN last' = Request("list_range", sub, 0, 0, query, ValidationError)
          ELSE \E rows \in OrderedByStart(
                              list_sessions_in_range(tasks, sessions, sub, from_at, to_at),
                              sessions) :
                  last' = [Request("list_range", sub, 0, 0, query, OK)
                              EXCEPT !.result = rows,
                                     !.task_titles =
                                         [k \in DOMAIN rows |-> tasks[sessions[rows[k]].task_id].title]]
       /\ UNCHANGED <<store, txn>>

----------------------------------------------------------------------------
\* Requests executed one at a time

NewTask ==
    [title |-> <<"a">>, description |-> None, status |-> BACKLOG, due_at |-> 0,
     planned_start_at |-> None, planned_end_at |-> None, planned_duration |-> None]

TaskCreateInputs == {NewTask}

TaskUpdateInputs == {[status |-> Some(TASK_COMPLETED)]}

ExplicitEnd(s, e) ==
    [scheduled_start_at |-> s, scheduled_end_at |-> Some(e), duration_minutes |-> None]

\* What "u1" sends: every interval with start < end, payloads the schema
\* refuses, a duration instead of an end, both, neither.
SessionCreateInputs ==
    {ExplicitEnd(iv[1], iv[2]) : iv \in {x \in Times \X Times : x[1] <= x[2]}}
    \cup {[scheduled_start_at |-> s, scheduled_end_at |-> None, duration_minutes |-> Some(1)] :
            s \in {t \in Times : t + Minute <= MaxTime}}
    \cup {ExplicitEnd(1, 0),
          [scheduled_start_at |-> 0, scheduled_end_at |-> None, duration_minutes |-> Some(0)],
          [scheduled_start_at |-> 0, scheduled_end_at |-> Some(1), duration_minutes |-> Some(1)],
          [scheduled_start_at |-> 0, scheduled_end_at |-> None, duration_minutes |-> None]}

\* What the other user sends
OtherSessionCreateInputs == {ExplicitEnd(0, 2), ExplicitEnd(1, MaxTime)}

SessionUpdateInputs ==
    {[scheduled_start_at |-> Some(s)] : s \in Times}
    \cup {[scheduled_end_at |-> Some(e)] : e \in Times}
    \cup {[scheduled_start_at |-> Some(iv[1]), scheduled_end_at |-> Some(iv[2])] :
            iv \in {x \in Times \X Times : x[1] < x[2]}}
    \cup {[scheduled_start_at |-> Some(1), scheduled_end_at |-> Some(1)],
          [scheduled_start_at |-> None], [scheduled_end_at |-> None],
          [status |-> None], <<>>}

OtherSessionUpdateInputs == {[scheduled_start_at |-> Some(0)]}

CreateInputs(sub) == IF sub = "u1" THEN SessionCreateInputs ELSE OtherSessionCreateInputs

UpdateInputs(sub) == IF sub = "u1" THEN SessionUpdateInputs ELSE OtherSessionUpdateInputs

NoTxn == <<>>

\* No request is presenting credentials
NoCredentials == <<>>

\* Nobody has logged in: Redis holds no bundle, the browsers no session cookie
AuthInit ==
    /\ redis = <<>>
    /\ session = [b \in Browsers |-> <<>>]
    /\ next_sid = 1
    /\ next_state = 1
    /\ now = 0
    /\ credentials = NoCredentials

Init ==
    /\ tasks = <<>>
    /\ sessions = <<>>
    /\ next_task_id = 1
    /\ next_session_id = 1
    /\ last = Idle
    /\ txn = NoTxn
    /\ AuthInit

\* The response is sent; the next request can be handled
Respond ==
    /\ last # Idle
    /\ last' = Idle
    /\ credentials' = NoCredentials
    /\ UNCHANGED <<store, txn, redis, session, next_sid, next_state, now>>

Next ==
    \/ Respond
    \/ \E sub \in Users, payload \in TaskCreateInputs :
            CreateTask(sub, payload) /\ UNCHANGED authvars
    \/ \E sub \in Users, task_id \in TaskIds, payload \in TaskUpdateInputs :
            UpdateTask(sub, task_id, payload) /\ UNCHANGED authvars
    \/ \E sub \in Users, task_id \in TaskIds : DeleteTask(sub, task_id) /\ UNCHANGED authvars
    \/ \E sub \in Users, task_id \in TaskIds : \E payload \in CreateInputs(sub) :
            CreateSession(sub, task_id, payload) /\ UNCHANGED authvars
    \/ \E sub \in Users, task_id \in TaskIds, session_id \in SessionIds :
            \E payload \in UpdateInputs(sub) :
                UpdateSession(sub, task_id, session_id, payload) /\ UNCHANGED authvars
    \/ \E sub \in Users, task_id \in TaskIds, session_id \in SessionIds :
            DeleteSession(sub, task_id, session_id) /\ UNCHANGED authvars

Spec == Init /\ [][Next]_vars

----------------------------------------------------------------------------
\* Requests executed one at a time, session updates that carry a status

UnitSessionCreateInputs == {ExplicitEnd(t, t + 1) : t \in 0..(MaxTime - 1)}

StatusUpdateInputs ==
    {[status |-> Some(COMPLETED)], [status |-> Some(INCOMPLETE)]}
    \cup {[scheduled_start_at |-> Some(iv[1]), scheduled_end_at |-> Some(iv[2]),
           status |-> Some(COMPLETED)] : iv \in {x \in Times \X Times : x[1] < x[2]}}
    \cup {[scheduled_start_at |-> Some(t), status |-> Some(COMPLETED)] : t \in Times}

NextStatus ==
    \/ Respond
    \/ \E sub \in Users, payload \in TaskCreateInputs :
            CreateTask(sub, payload) /\ UNCHANGED authvars
    \/ \E sub \in Users, task_id \in TaskIds, payload \in UnitSessionCreateInputs :
            CreateSession(sub, task_id, payload) /\ UNCHANGED authvars
    \/ \E sub \in Users, task_id \in TaskIds, session_id \in SessionIds,
          payload \in StatusUpdateInputs :
            UpdateSession(sub, task_id, session_id, payload) /\ UNCHANGED authvars
    \/ \E sub \in Users, task_id \in TaskIds, session_id \in SessionIds :
            DeleteSession(sub, task_id, session_id) /\ UNCHANGED authvars

SpecStatus == Init /\ [][NextStatus]_vars

----------------------------------------------------------------------------
\* Requests executed one at a time, reads among them

ReadCreateInputs == UnitSessionCreateInputs \cup {ExplicitEnd(0, 2)}

ReadUpdateInputs == {[scheduled_start_at |-> Some(0)], [status |-> Some(COMPLETED)]}

StatusQueries == {None, Some(COMPLETED), Some("DONE")}

DateFromQueries == {None, Some(1)}

DateToQueries == {None, Some(2)}

ReadCreates(sub) == IF sub = "u1" THEN ReadCreateInputs ELSE OtherSessionCreateInputs

ReadUpdates(sub) == IF sub = "u1" THEN ReadUpdateInputs ELSE OtherSessionUpdateInputs

ReadTaskUpdateInputs == {[title |-> Some(<<"b">>)]}

LimitQueries == {0, 1, 2, 100}

OffsetQueries == {0, 1, 2}

NextReads ==
    \/ Respond
    \/ \E sub \in Users, payload \in TaskCreateInputs :
            CreateTask(sub, payload) /\ UNCHANGED authvars
    \/ \E sub \in Users, task_id \in TaskIds, payload \in ReadTaskUpdateInputs :
            UpdateTask(sub, task_id, payload) /\ UNCHANGED authvars
    \/ \E sub \in Users, task_id \in TaskIds : DeleteTask(sub, task_id) /\ UNCHANGED authvars
    \/ \E sub \in Users, task_id \in TaskIds : GetTask(sub, task_id) /\ UNCHANGED authvars
    \/ \E sub \in Users, limit \in LimitQueries, offset \in OffsetQueries :
            GetTasks(sub, limit, offset) /\ UNCHANGED authvars
    \/ \E sub \in Users, task_id \in TaskIds :
            \E payload \in ReadCreates(sub) : CreateSession(sub, task_id, payload)
            /\ UNCHANGED authvars
    \/ \E sub \in Users, task_id \in TaskIds, session_id \in SessionIds :
            \E payload \in ReadUpdates(sub) :
                UpdateSession(sub, task_id, session_id, payload) /\ UNCHANGED authvars
    \/ \E sub \in Users, task_id \in TaskIds, session_id \in SessionIds :
            DeleteSession(sub, task_id, session_id) /\ UNCHANGED authvars
    \/ \E sub \in Users, task_id \in TaskIds, date_from \in DateFromQueries,
          date_to \in DateToQueries, session_status \in StatusQueries :
            GetSessionsForTask(sub, task_id, date_from, date_to, session_status)
            /\ UNCHANGED authvars
    \/ \E sub \in Users, from_at \in Times, to_at \in Times :
            GetSessionsInRange(sub, from_at, to_at) /\ UNCHANGED authvars

SpecReads == Init /\ [][NextReads]_vars

----------------------------------------------------------------------------
\* Requests executed one at a time on the planning fields of one task: the
\* store is empty and one task id is left.

\* Instants a whole and a broken number of minutes apart
PlanTimes == {0, Minute - 1, Minute, 2 * Minute}

PlanOptions == {None} \cup {Some(t) : t \in PlanTimes}

PlanTask == [title |-> <<"a">>, due_at |-> 0]

PlanCreateInputs ==
    {PlanTask @@ [planned_start_at |-> start, planned_end_at |-> end, planned_duration |-> d] :
        start \in PlanOptions, end \in PlanOptions, d \in {None, Some(0), Some(1), Some(2)}}
    \cup {PlanTask @@ [status |-> st] : st \in {BACKLOG, PLANNED, TASK_COMPLETED}}
    \cup {PlanTask @@ [status |-> PLANNED, planned_start_at |-> Some(0),
                       planned_end_at |-> Some(2 * Minute), planned_duration |-> Some(2)],
          [title |-> <<" ">>, due_at |-> 0],
          [title |-> <<"a">>]}

\* A field of a partial payload: not supplied, or supplied with a value
Supplied(values) ==
    {[set |-> FALSE, value |-> None]} \cup {[set |-> TRUE, value |-> v] : v \in values}

Partial(options) == [f \in {g \in DOMAIN options : options[g].set} |-> options[f].value]

PlanUpdateInputs ==
    {Partial(o) : o \in [planned_start_at : Supplied(PlanOptions),
                         planned_end_at : Supplied(PlanOptions),
                         planned_duration : Supplied({None, Some(1), Some(2)})]}
    \cup {[title |-> Some(<<"b">>), status |-> Some(TASK_COMPLETED), due_at |-> Some(1),
           planned_duration |-> Some(d)] : d \in {0, 1, 2}}
    \cup {[title |-> Some(<<"b">>)], [title |-> Some(<<" ">>)], [title |-> None],
          [status |-> None], [status |-> Some(BACKLOG)]}

InitPlan ==
    /\ tasks = <<>>
    /\ sessions = <<>>
    /\ next_task_id = MaxTaskId
    /\ next_session_id = 1
    /\ last = Idle
    /\ txn = NoTxn
    /\ AuthInit

NextPlan ==
    \/ Respond
    \/ \E payload \in PlanCreateInputs : CreateTask("u1", payload) /\ UNCHANGED authvars
    \/ \E task_id \in TaskIds, payload \in PlanUpdateInputs :
            UpdateTask("u1", task_id, payload) /\ UNCHANGED authvars

SpecPlan == InitPlan /\ [][NextPlan]_vars

----------------------------------------------------------------------------
\* Interleaved create-session requests.  Each request has its own database
\* session; a statement reads what is committed when it runs, and the pending
\* INSERT and UPDATE reach the tables together, at session.commit().

FreeTxn ==
    [pc |-> "free", sub |-> "", task_id |-> 0, start_at |-> 0, end_at |-> 0,
     is_first_session |-> FALSE, seen |-> {}, session_id |-> 0, wrote |-> {},
     outcome |-> OK]

Txns == 1..MaxTxn

Finish(t, outcome) == [txn EXCEPT ![t].pc = "done", ![t].outcome = outcome]

\* create_session_for_task, session.get(Task, task_id) and the owner check
TxnGet(t, sub, task_id, payload) ==
    /\ txn[t].pc = "free"
    /\ SessionCreateValid(payload)
    /\ IF TaskMissing(task_id, sub)
       THEN txn' = [txn EXCEPT ![t].pc = "done", ![t].sub = sub, ![t].task_id = task_id,
                               ![t].outcome = NotFound]
       ELSE LET times == _normalize_create_times(payload)
            IN txn' = [txn EXCEPT ![t].pc = "overlap", ![t].sub = sub,
                                  ![t].task_id = task_id,
                                  ![t].start_at = times.start_at,
                                  ![t].end_at = times.end_at]
    /\ UNCHANGED <<store, last>>

\* create_session_for_task, the overlap check; seen: the sessions committed by then
TxnOverlap(t) ==
    /\ txn[t].pc = "overlap"
    /\ LET overlap == _sessions_overlap(tasks, sessions, txn[t].sub, txn[t].start_at,
                                        txn[t].end_at, None)
       IN IF overlap.raised THEN txn' = Finish(t, MultipleResultsFound)
          ELSE IF overlap.found THEN txn' = Finish(t, Conflict)
          ELSE txn' = [txn EXCEPT ![t].pc = "count", ![t].seen = DOMAIN sessions]
    /\ UNCHANGED <<store, last>>

\* create_session_for_task, the count of the task's sessions
TxnCount(t) ==
    /\ txn[t].pc = "count"
    /\ txn' = [txn EXCEPT ![t].pc = "commit",
                          ![t].is_first_session = (SessionCount(sessions, txn[t].task_id) = 0)]
    /\ UNCHANGED <<store, last>>

\* Mutant: the INSERT is committed, and the status in a commit of its own
TxnCommitInTwo(t) ==
    \/ /\ txn[t].pc = "commit"
       /\ txn[t].task_id \in DOMAIN tasks
       /\ next_session_id <= MaxSessionId
       /\ sessions' = sessions @@ (next_session_id :>
              [task_id |-> txn[t].task_id, scheduled_start_at |-> txn[t].start_at,
               scheduled_end_at |-> txn[t].end_at, status |-> INCOMPLETE])
       /\ next_session_id' = next_session_id + 1
       /\ txn' = [txn EXCEPT ![t].pc = IF txn[t].is_first_session THEN "status" ELSE "done",
                             ![t].session_id = next_session_id,
                             ![t].wrote = {"session"}]
       /\ UNCHANGED <<tasks, next_task_id, last>>
    \/ /\ txn[t].pc = "status"
       /\ txn[t].task_id \in DOMAIN tasks
       /\ tasks' = [tasks EXCEPT ![txn[t].task_id].status = PLANNED]
       /\ txn' = [txn EXCEPT ![t].pc = "done", ![t].wrote = {"session", "status"}]
       /\ UNCHANGED <<sessions, next_task_id, next_session_id, last>>

\* Mutant: a commit is refused when sessions were committed since the
\* request's overlap check (the first committer wins)
TxnCommitFirstWins(t) ==
    /\ txn[t].pc = "commit"
    /\ IF txn[t].task_id \notin DOMAIN tasks
       THEN /\ txn' = Finish(t, IF txn[t].is_first_session THEN StaleDataError
                                ELSE IntegrityError)
            /\ UNCHANGED store
       ELSE IF DOMAIN sessions # txn[t].seen
       THEN /\ txn' = Finish(t, "SerializationFailure")
            /\ UNCHANGED store
       ELSE /\ next_session_id <= MaxSessionId
            /\ sessions' = sessions @@ (next_session_id :>
                   [task_id |-> txn[t].task_id, scheduled_start_at |-> txn[t].start_at,
                    scheduled_end_at |-> txn[t].end_at, status |-> INCOMPLETE])
            /\ tasks' = [tasks EXCEPT ![txn[t].task_id].status =
                            FirstSessionStatus(tasks[txn[t].task_id],
                                               txn[t].is_first_session)]
            /\ next_session_id' = next_session_id + 1
            /\ txn' = [txn EXCEPT ![t].pc = "done", ![t].outcome = OK,
                                  ![t].session_id = next_session_id,
                                  ![t].wrote = IF txn[t].is_first_session
                                               THEN {"session", "status"}
                                               ELSE {"session"}]
            /\ UNCHANGED next_task_id
    /\ UNCHANGED last

\* create_session_for_task, session.add, task.status and session.commit(): the
\* row and the status are flushed and committed together.  When the task was
\* deleted meanwhile, the UPDATE of its status matches no row (StaleDataError)
\* or the INSERT violates the foreign key (IntegrityError).
TxnCommit(t) ==
    /\ txn[t].pc = "commit"
    /\ IF txn[t].task_id \notin DOMAIN tasks
       THEN /\ txn' = Finish(t, IF txn[t].is_first_session THEN StaleDataError
                                ELSE IntegrityError)
            /\ UNCHANGED store
       ELSE /\ next_session_id <= MaxSessionId
            /\ sessions' = sessions @@ (next_session_id :>
                   [task_id |-> txn[t].task_id, scheduled_start_at |-> txn[t].start_at,
                    scheduled_end_at |-> txn[t].end_at, status |-> INCOMPLETE])
            /\ tasks' = [tasks EXCEPT ![txn[t].task_id].status =
                            FirstSessionStatus(tasks[txn[t].task_id],
                                               txn[t].is_first_session)]
            /\ next_session_id' = next_session_id + 1
            /\ txn' = [txn EXCEPT ![t].pc = "done", ![t].outcome = OK,
                                  ![t].session_id = next_session_id,
                                  ![t].wrote = IF txn[t].is_first_session
                                               THEN {"session", "status"}
                                               ELSE {"session"}]
            /\ UNCHANGED next_task_id
    /\ UNCHANGED last

\* The request fails before its commit (the connection drops, the worker dies):
\* get_session closes the database session, nothing was committed
TxnAbort(t) ==
    /\ txn[t].pc \in {"overlap", "count", "commit"}
    /\ txn' = Finish(t, "aborted")
    /\ UNCHANGED <<store, last>>

ConcCreateInputs == {ExplicitEnd(0, 2), ExplicitEnd(1, MaxTime), ExplicitEnd(2, MaxTime)}

InitConc ==
    /\ tasks = <<>>
    /\ sessions = <<>>
    /\ next_task_id = 1
    /\ next_session_id = 1
    /\ last = Idle
    /\ txn = [t \in Txns |-> FreeTxn]
    /\ AuthInit

NextConc ==
    \/ Respond
    \/ \E sub \in Users, payload \in TaskCreateInputs :
            CreateTask(sub, payload) /\ UNCHANGED authvars
    \/ \E sub \in Users, task_id \in TaskIds : DeleteTask(sub, task_id) /\ UNCHANGED authvars
    \/ \E t \in Txns, sub \in Users, task_id \in TaskIds, payload \in ConcCreateInputs :
            TxnGet(t, sub, task_id, payload) /\ UNCHANGED authvars
    \/ \E t \in Txns : TxnOverlap(t) /\ UNCHANGED authvars
    \/ \E t \in Txns : TxnCount(t) /\ UNCHANGED authvars
    \/ \E t \in Txns : TxnCommit(t) /\ UNCHANGED authvars
    \/ \E t \in Txns : TxnAbort(t) /\ UNCHANGED authvars

SpecConc == InitConc /\ [][NextConc]_vars

----------------------------------------------------------------------------
\* What the specification says, in its own terms

\* Two intervals [s1, e1) and [s2, e2) overlap (touching endpoints do not)
Intersect(s1, e1, s2, e2) == s1 < e2 /\ e1 > s2

OwnerOf(tsk, sess, i) == tsk[sess[i].task_id].created_by_sub

\* The sessions of owner's tasks
OwnedSessions(tsk, sess, owner) ==
    {i \in DOMAIN sess : sess[i].task_id \in DOMAIN tsk /\ OwnerOf(tsk, sess, i) = owner}

\* The sessions of owner that overlap [s, e)
Clashing(tsk, sess, owner, s, e) ==
    {i \in OwnedSessions(tsk, sess, owner) :
        Intersect(sess[i].scheduled_start_at, sess[i].scheduled_end_at, s, e)}

SessionsOf(sess, task_id) == {i \in DOMAIN sess : sess[i].task_id = task_id}

Owns(tsk, owner, task_id) == task_id \in DOMAIN tsk /\ tsk[task_id].created_by_sub = owner

StoreUnchanged == tasks = last.before.tasks /\ sessions = last.before.sessions

\* The interval a create payload asks for: the explicit end, else start + duration
AskedEnd(p) ==
    IF p.scheduled_end_at # None THEN Val(p.scheduled_end_at)
    ELSE p.scheduled_start_at + Val(p.duration_minutes) * Minute

----------------------------------------------------------------------------
\* C1: with requests executed one at a time, no two distinct sessions whose
\* tasks have the same owner satisfy S1.start < S2.end and S1.end > S2.start,
\* whatever task and session requests succeeded or failed before.
C1_NoOverlap ==
    \A i \in DOMAIN sessions : \A j \in DOMAIN sessions :
        (i # j /\ OwnerOf(tasks, sessions, i) = OwnerOf(tasks, sessions, j))
            => ~(/\ sessions[i].scheduled_start_at < sessions[j].scheduled_end_at
                 /\ sessions[i].scheduled_end_at > sessions[j].scheduled_start_at)

\* A session was just moved next to another of its owner, while a session of
\* another owner overlaps it.
C1_Witness ==
    /\ last.op = "update_session" /\ last.outcome = OK
    /\ \E j \in DOMAIN sessions \ {last.session_id} : \E k \in DOMAIN sessions :
        /\ OwnerOf(tasks, sessions, j) = last.sub
        /\ sessions[j].scheduled_end_at = sessions[last.session_id].scheduled_start_at
        /\ OwnerOf(tasks, sessions, k) # last.sub
        /\ Intersect(sessions[k].scheduled_start_at, sessions[k].scheduled_end_at,
                     sessions[last.session_id].scheduled_start_at,
                     sessions[last.session_id].scheduled_end_at)

\* C2: a session Create on an owned task fails with Conflict exactly when the
\* interval it asks for overlaps some session of any task of the same owner,
\* leaving the store unchanged, and otherwise succeeds with that interval.
C2_ConflictIffOverlap ==
    (/\ last.op = "create_session"
     /\ SessionCreateValid(last.payload)
     /\ Owns(last.before.tasks, last.sub, last.task_id))
    => LET s == last.payload.scheduled_start_at
           e == AskedEnd(last.payload)
           clash == Clashing(last.before.tasks, last.before.sessions, last.sub, s, e)
       IN /\ clash # {} => (last.outcome = Conflict /\ StoreUnchanged)
          /\ clash = {} =>
                /\ last.outcome = OK
                /\ last.session_id \in DOMAIN sessions \ DOMAIN last.before.sessions
                /\ sessions[last.session_id].scheduled_start_at = s
                /\ sessions[last.session_id].scheduled_end_at = e

\* C2, for a candidate that overlaps at most one session of the owner
C2_ConflictIffOneOverlap ==
    (/\ last.op = "create_session"
     /\ SessionCreateValid(last.payload)
     /\ Owns(last.before.tasks, last.sub, last.task_id))
    => LET s == last.payload.scheduled_start_at
           e == AskedEnd(last.payload)
           clash == Clashing(last.before.tasks, last.before.sessions, last.sub, s, e)
       IN /\ Cardinality(clash) = 1 => (last.outcome = Conflict /\ StoreUnchanged)
          /\ Cardinality(clash) > 1 =>
                (last.outcome = MultipleResultsFound /\ StoreUnchanged)
          /\ clash = {} =>
                /\ last.outcome = OK
                /\ last.session_id \in DOMAIN sessions \ DOMAIN last.before.sessions
                /\ sessions[last.session_id].scheduled_start_at = s
                /\ sessions[last.session_id].scheduled_end_at = e

\* A create was refused because it overlaps a session of another task of the
\* owner, next to a session it only touches.
C2_Witness ==
    /\ last.op = "create_session" /\ last.outcome = Conflict
    /\ \E i \in DOMAIN sessions : \E j \in DOMAIN sessions :
        /\ OwnerOf(tasks, sessions, i) = last.sub
        /\ sessions[i].task_id # last.task_id
        /\ Intersect(sessions[i].scheduled_start_at, sessions[i].scheduled_end_at,
                     last.payload.scheduled_start_at, AskedEnd(last.payload))
        /\ OwnerOf(tasks, sessions, j) = last.sub
        /\ sessions[j].scheduled_start_at = AskedEnd(last.payload)

\* C3: a session created on a BACKLOG task with no session leaves the task
\* PLANNED; a session created on a task that has a session leaves the task's
\* status as it was.
C3_FirstSessionPlans ==
    (last.op = "create_session" /\ last.outcome = OK)
    => LET had == SessionsOf(last.before.sessions, last.task_id)
           was == last.before.tasks[last.task_id].status
       IN /\ (had = {} /\ was = BACKLOG) => tasks[last.task_id].status = PLANNED
          /\ had # {} => tasks[last.task_id].status = was

\* A further session was created on a task that an update had set COMPLETED
\* after its first session.
C3_Witness ==
    /\ last.op = "create_session" /\ last.outcome = OK
    /\ SessionsOf(last.before.sessions, last.task_id) # {}
    /\ last.before.tasks[last.task_id].status = TASK_COMPLETED
    /\ tasks[last.task_id].status = TASK_COMPLETED

C8_EndAfterStart ==
    \A i \in DOMAIN sessions :
        sessions[i].scheduled_end_at > sessions[i].scheduled_start_at

\* An update that supplied only one time field was accepted.
C8_Witness ==
    /\ last.op = "update_session" /\ last.outcome = OK
    /\ DOMAIN last.payload = {"scheduled_start_at"}
    /\ sessions[last.session_id] # last.before.sessions[last.session_id]

\* The interval an update payload asks for
AskedStart(row, data) ==
    IF "scheduled_start_at" \in DOMAIN data THEN Val(data.scheduled_start_at)
    ELSE row.scheduled_start_at

AskedUpdateEnd(row, data) ==
    IF "scheduled_end_at" \in DOMAIN data THEN Val(data.scheduled_end_at)
    ELSE row.scheduled_end_at

\* An update of an owned session that asks for an interval with start < end
MovesSession ==
    /\ last.op = "update_session"
    /\ SessionUpdateValid(last.payload)
    /\ last.session_id \in OwnedSessions(last.before.tasks, last.before.sessions, last.sub)
    /\ last.before.sessions[last.session_id].task_id = last.task_id
    /\ TimesSupplied(last.payload)
    /\ \A f \in DOMAIN last.payload : last.payload[f] # None
    /\ AskedStart(last.before.sessions[last.session_id], last.payload)
         < AskedUpdateEnd(last.before.sessions[last.session_id], last.payload)

\* C9: a session Update is accepted when the interval it asks for overlaps no
\* other session of the owner (its own previous interval does not count), and
\* is refused, the store unchanged, when it overlaps another session of the
\* owner in any task.
C9_ExcludesOnlySelf ==
    MovesSession
    => LET row == last.before.sessions[last.session_id]
           s == AskedStart(row, last.payload)
           e == AskedUpdateEnd(row, last.payload)
           others == Clashing(last.before.tasks, last.before.sessions, last.sub, s, e)
                        \ {last.session_id}
       IN /\ others = {} =>
                /\ last.outcome = OK
                /\ sessions[last.session_id].scheduled_start_at = s
                /\ sessions[last.session_id].scheduled_end_at = e
          /\ others # {} => (last.outcome # OK /\ StoreUnchanged)

\* A session was moved to an interval that overlaps its previous one, beside
\* another session of the owner.
C9_Witness ==
    /\ MovesSession /\ last.outcome = OK
    /\ LET row == last.before.sessions[last.session_id]
           new == sessions[last.session_id]
       IN /\ new # row
          /\ Intersect(row.scheduled_start_at, row.scheduled_end_at,
                       new.scheduled_start_at, new.scheduled_end_at)
    /\ OwnedSessions(tasks, sessions, last.sub) # {last.session_id}

\* C10: no session refers to a task that is not in the store, and after a
\* task is deleted no session with its id remains.
C10_NoOrphans ==
    /\ \A i \in DOMAIN sessions : sessions[i].task_id \in DOMAIN tasks
    /\ (last.op = "delete_task" /\ last.outcome = OK)
          => (last.task_id \notin DOMAIN tasks /\ SessionsOf(sessions, last.task_id) = {})

\* A task with two sessions was deleted; a session of another task remains.
C10_Witness ==
    /\ last.op = "delete_task" /\ last.outcome = OK
    /\ Cardinality(SessionsOf(last.before.sessions, last.task_id)) >= 2
    /\ sessions # <<>>

\* The requests that committed a session which is still in the store
Committed == {t \in DOMAIN txn : txn[t].pc = "done" /\ txn[t].outcome = OK
                                    /\ txn[t].session_id \in DOMAIN sessions}

\* Two committed requests of one owner whose sessions overlap
Raced(t1, t2) ==
    /\ t1 # t2
    /\ txn[t1].sub = txn[t2].sub
    /\ Intersect(sessions[txn[t1].session_id].scheduled_start_at,
                 sessions[txn[t1].session_id].scheduled_end_at,
                 sessions[txn[t2].session_id].scheduled_start_at,
                 sessions[txn[t2].session_id].scheduled_end_at)

\* C4: interleaved create-session requests of one owner can leave two
\* overlapping sessions in the store (C4_Witness is reached), and only by the
\* race: each of the two ran its overlap check before the other committed.
C4_OverlapOnlyByRace ==
    \A t1 \in Committed : \A t2 \in Committed :
        Raced(t1, t2) => /\ txn[t2].session_id \notin txn[t1].seen
                         /\ txn[t1].session_id \notin txn[t2].seen

\* Both requests passed the overlap check, both committed, their sessions overlap.
C4_Witness ==
    \E t1 \in Committed : \E t2 \in Committed :
        /\ Raced(t1, t2)
        /\ OwnerOf(tasks, sessions, txn[t1].session_id)
             = OwnerOf(tasks, sessions, txn[t2].session_id)
        /\ txn[t1].seen = {} /\ txn[t2].seen = {}

\* C7: the session a first-session Create inserts and the status it writes
\* are committed together or not at all, whatever the other requests do and
\* wherever the request fails.
C7_InsertAndStatusTogether ==
    \A t \in DOMAIN txn :
        /\ txn[t].is_first_session => (("session" \in txn[t].wrote) <=> ("status" \in txn[t].wrote))
        /\ txn[t].outcome # OK => txn[t].wrote = {}
        /\ (txn[t].pc = "done" /\ txn[t].outcome = OK) => "session" \in txn[t].wrote
        /\ txn[t].pc # "done" => txn[t].wrote = {}

\* One first-session create committed both writes, while another request that
\* had also found no session failed at its commit and wrote nothing.
C7_Witness ==
    \E t1 \in DOMAIN txn : \E t2 \in DOMAIN txn :
        /\ txn[t1].pc = "done" /\ txn[t1].outcome = OK
        /\ txn[t1].wrote = {"session", "status"}
        /\ txn[t1].session_id \in DOMAIN sessions
        /\ tasks[txn[t1].task_id].status = PLANNED
        /\ txn[t2].pc = "done" /\ txn[t2].is_first_session
        /\ txn[t2].outcome = "aborted"

\* C5: a session Update that asks for an interval overlapping another session
\* of the owner fails with Conflict and leaves the store unchanged (start, end
\* and status of the session as they were), also when the payload supplies a
\* status.
C5_OverlappingUpdateConflicts ==
    MovesSession
    => LET row == last.before.sessions[last.session_id]
           s == AskedStart(row, last.payload)
           e == AskedUpdateEnd(row, last.payload)
           others == Clashing(last.before.tasks, last.before.sessions, last.sub, s, e)
                        \ {last.session_id}
       IN others # {} => (last.outcome = Conflict /\ StoreUnchanged)

\* C5, as far as the code goes: the update is refused and the store is
\* unchanged; the refusal is Conflict when one other session overlaps.
C5_OverlappingUpdateRefused ==
    MovesSession
    => LET row == last.before.sessions[last.session_id]
           s == AskedStart(row, last.payload)
           e == AskedUpdateEnd(row, last.payload)
           others == Clashing(last.before.tasks, last.before.sessions, last.sub, s, e)
                        \ {last.session_id}
       IN /\ others # {} =>
                (last.outcome \in {Conflict, MultipleResultsFound} /\ StoreUnchanged)
          /\ Cardinality(others) = 1 => last.outcome = Conflict

\* An update carrying a status and an overlapping interval was refused.
C5_Witness ==
    /\ MovesSession /\ last.outcome = Conflict
    /\ "status" \in DOMAIN last.payload
    /\ Val(last.payload.status) # sessions[last.session_id].status

\* C11: a successful session Delete removes that session and nothing else:
\* the other sessions and every task, the status of the owning task included,
\* are as they were; a PLANNED task whose last session goes stays PLANNED.
C11_DeleteSessionFrame ==
    (last.op = "delete_session" /\ last.outcome = OK)
    => /\ sessions = Remove(last.before.sessions, last.session_id)
       /\ last.session_id \in DOMAIN last.before.sessions
       /\ tasks = last.before.tasks
       /\ (/\ last.before.tasks[last.task_id].status = PLANNED
           /\ SessionsOf(sessions, last.task_id) = {})
          => tasks[last.task_id].status = PLANNED

\* The last session of a PLANNED task was deleted.
C11_Witness ==
    /\ last.op = "delete_session" /\ last.outcome = OK
    /\ last.before.tasks[last.task_id].status = PLANNED
    /\ SessionsOf(sessions, last.task_id) = {}
    /\ sessions # <<>>

\* The session a request names, as the request found it, belongs to a task
\* of the caller
NamesOwnSession ==
    /\ last.session_id \in DOMAIN last.before.sessions
    /\ last.before.sessions[last.session_id].task_id = last.task_id
    /\ Owns(last.before.tasks, last.sub, last.task_id)

\* C12: a created session is INCOMPLETE; a successful session Update that
\* supplies a status stores that status, whatever the status was; an Update
\* of an own session that supplies a status and nothing else succeeds.
C12_StatusSetDirectly ==
    /\ (last.op = "create_session" /\ last.outcome = OK)
       => sessions[last.session_id].status = INCOMPLETE
    /\ (/\ last.op = "update_session"
        /\ "status" \in DOMAIN last.payload
        /\ last.payload.status # None)
       => /\ last.outcome = OK
             => sessions[last.session_id].status = Val(last.payload.status)
          /\ (NamesOwnSession /\ DOMAIN last.payload = {"status"})
             => last.outcome = OK

\* A COMPLETED session was set back to INCOMPLETE.
C12_Witness ==
    /\ last.op = "update_session" /\ last.outcome = OK
    /\ "status" \in DOMAIN last.payload
    /\ last.before.sessions[last.session_id].status = COMPLETED
    /\ sessions[last.session_id].status = INCOMPLETE

\* The tasks and sessions of the users other than the caller, as the request
\* found them
OthersTasks == {t \in DOMAIN last.before.tasks : last.before.tasks[t].created_by_sub # last.sub}

OthersSessions ==
    {i \in DOMAIN last.before.sessions : last.before.sessions[i].task_id \in OthersTasks}

\* C13: a request of a user never returns, modifies or removes a session of
\* a task of another user: every task and session of the others is as it was,
\* every session a list returns belongs to the caller, a list for a task of
\* another user is empty, and an update or delete that names a task or a
\* session of another user fails with NotFound.
C13_SessionsOfOthersUntouched ==
    last # Idle
    => /\ \A t \in OthersTasks : t \in DOMAIN tasks /\ tasks[t] = last.before.tasks[t]
       /\ \A i \in OthersSessions :
              i \in DOMAIN sessions /\ sessions[i] = last.before.sessions[i]
       /\ last.op \in {"list_sessions", "list_range"}
          => \A k \in DOMAIN last.result :
                 OwnerOf(tasks, sessions, last.result[k]) = last.sub
       /\ (last.op = "list_sessions" /\ last.task_id \in OthersTasks)
          => last.result = <<>>
       /\ (/\ last.op \in {"update_session", "delete_session"}
           /\ (last.task_id \in OthersTasks \/ last.session_id \in OthersSessions))
          => last.outcome = NotFound

\* A user listed the sessions of a task of another user that has a session,
\* and got none.
C13_Witness ==
    /\ last.op = "list_sessions" /\ last.outcome = OK
    /\ last.task_id \in OthersTasks
    /\ SessionsOf(sessions, last.task_id) # {}
    /\ last.result = <<>>
    /\ \E i \in DOMAIN sessions : OwnerOf(tasks, sessions, i) = last.sub

\* C14: Get, Update and Delete of a task the caller does not own, whether
\* the id is another user's or nobody's, end alike with NotFound and no
\* content, and leave every task and session as they were.
C14_TaskOfOtherNotFound ==
    (/\ last.op \in {"get_task", "update_task", "delete_task"}
     /\ last.outcome # RequestValidationError
     /\ ~Owns(last.before.tasks, last.sub, last.task_id))
    => /\ last.outcome = NotFound
       /\ last.result = <<>>
       /\ StoreUnchanged

\* A user asked to update or to delete a task of another
\* user that has a session.
C14_Witness ==
    /\ last.op \in {"update_task", "delete_task"}
    /\ last.task_id \in OthersTasks
    /\ last.outcome = NotFound
    /\ SessionsOf(sessions, last.task_id) # {}

\* d minutes is the length diff in whole minutes, rounded either way
WithinAMinute(d, diff) == d * Minute - diff < Minute /\ diff - d * Minute < Minute

\* C15: every stored task with planned_start_at and planned_end_at has a
\* planned_duration, and it is the length of the interval in minutes (the
\* length itself when that is a whole number of minutes).
C15_DurationMatchesInterval ==
    \A t \in DOMAIN tasks :
        (tasks[t].planned_start_at # None /\ tasks[t].planned_end_at # None)
        => /\ tasks[t].planned_duration # None
           /\ WithinAMinute(Val(tasks[t].planned_duration),
                            Val(tasks[t].planned_end_at) - Val(tasks[t].planned_start_at))

\* An update that supplied only planned_end_at gave the task an interval,
\* and the duration was derived.
C15_Witness ==
    /\ last.op = "update_task" /\ last.outcome = OK
    /\ DOMAIN last.payload = {"planned_end_at"}
    /\ last.before.tasks[last.task_id].planned_duration = None
    /\ tasks[last.task_id].planned_start_at # None
    /\ tasks[last.task_id].planned_duration = Some(2)

\* The planning field a task Create or Update asks for: the payload's, or
\* for an Update that does not supply it, the stored one
AskedPlan(field) ==
    IF field \in DOMAIN last.payload THEN last.payload[field]
    ELSE IF last.op = "update_task" THEN last.before.tasks[last.task_id][field]
    ELSE None

\* A task Create, or a task Update of an own task, whose resulting
\* planned_start_at and planned_end_at are both set
PlansInterval ==
    /\ last.op \in {"create_task", "update_task"}
    /\ last.op = "update_task" => Owns(last.before.tasks, last.sub, last.task_id)
    /\ AskedPlan("planned_start_at") # None
    /\ AskedPlan("planned_end_at") # None

AskedLength == Val(AskedPlan("planned_end_at")) - Val(AskedPlan("planned_start_at"))

SuppliesDuration ==
    "planned_duration" \in DOMAIN last.payload /\ last.payload.planned_duration # None

\* C16: a task Create or Update that supplies a planned_duration which is
\* not the length in minutes of the resulting interval fails with a
\* validation error, and no task or session is created or changed: no field
\* of the same payload is stored.
C16_MismatchChangesNothing ==
    (/\ PlansInterval
     /\ SuppliesDuration
     /\ ~WithinAMinute(Val(last.payload.planned_duration), AskedLength))
    => /\ last.outcome \in {ValidationError, RequestValidationError}
       /\ StoreUnchanged

\* An update with a new title, status and due date and a duration that does
\* not match the stored interval was refused by the service.
C16_Witness ==
    /\ PlansInterval /\ SuppliesDuration
    /\ last.op = "update_task"
    /\ {"title", "status", "due_at"} \subseteq DOMAIN last.payload
    /\ ~WithinAMinute(Val(last.payload.planned_duration), AskedLength)
    /\ last.outcome = ValidationError
    /\ tasks[last.task_id].title = <<"a">>

\* C17: a task Update of an own task that has a planned interval, which
\* supplies planning times only and no planned_duration and leaves the task
\* with planned_end_at a whole number of minutes after planned_start_at,
\* succeeds and stores the length of the merged interval in minutes as
\* planned_duration, whatever duration the task stored before.
C17_OmittedDurationIsDerived ==
    (/\ PlansInterval
     /\ last.op = "update_task"
     /\ DOMAIN last.payload \subseteq {"planned_start_at", "planned_end_at"}
     /\ last.outcome # RequestValidationError
     /\ last.before.tasks[last.task_id].planned_start_at # None
     /\ last.before.tasks[last.task_id].planned_end_at # None
     /\ AskedLength > 0
     /\ AskedLength % Minute = 0)
    => /\ last.outcome = OK
       /\ tasks[last.task_id].planned_duration # None
       /\ WithinAMinute(Val(tasks[last.task_id].planned_duration), AskedLength)

\* C18: the planned_duration derived by a task Create is the length of the
\* interval divided by a minute and rounded to the nearest whole number, and
\* a Create that supplies that rounded value as planned_duration succeeds.
C18_DerivedDurationIsRounded ==
    (/\ PlansInterval
     /\ last.op = "create_task"
     /\ last.outcome # RequestValidationError)
    => IF SuppliesDuration
       THEN 2 * (Val(last.payload.planned_duration) * Minute - AskedLength) \in -Minute..Minute
            => last.outcome = OK
       ELSE /\ last.outcome = OK
            /\ 2 * (Val(tasks[last.task_id].planned_duration) * Minute - AskedLength)
                   \in -Minute..Minute

\* C19: every task has status BACKLOG right after a successful task Create.
C19_CreatedBacklog ==
    (last.op = "create_task" /\ last.outcome = OK)
    => tasks[last.task_id].status = BACKLOG

\* C19, amended: right after a successful task Create the task has the status
\* the payload supplied, and BACKLOG when the payload supplied none.
C19_CreatedWithSuppliedStatus ==
    (last.op = "create_task" /\ last.outcome = OK)
    => tasks[last.task_id].status =
          (IF "status" \in DOMAIN last.payload THEN last.payload.status ELSE BACKLOG)

\* A task was created with the status PLANNED its payload supplied.
C19_Witness ==
    /\ last.op = "create_task" /\ last.outcome = OK
    /\ "status" \in DOMAIN last.payload
    /\ last.payload.status = PLANNED
    /\ tasks[last.task_id].status = PLANNED

\* C20: a request whose payload the schema accepts ends in success or in one
\* of NotFound, validation error and Conflict, and in no other failure.
C20_OnlyDocumentedFailures ==
    (last # Idle /\ last.outcome # RequestValidationError)
    => last.outcome \in {OK, NotFound, ValidationError, Conflict}

\* The rows of a response are distinct and in ascending order of their start
ResultAscending ==
    \A i \in DOMAIN last.result : \A j \in DOMAIN last.result :
        i < j => /\ last.result[i] # last.result[j]
                 /\ sessions[last.result[i]].scheduled_start_at
                        <= sessions[last.result[j]].scheduled_start_at

ResultSet == {last.result[k] : k \in DOMAIN last.result}

\* C21: the timeline for a window from < to succeeds and returns exactly the
\* sessions of the caller's tasks that start before to and end after from (a
\* session that only touches the window is left out), in ascending order of
\* start, each beside the current title of its task.
C21_RangeReturnsIntersecting ==
    (last.op = "list_range" /\ last.payload.from_at < last.payload.to_at)
    => /\ last.outcome = OK
       /\ ResultSet = {i \in DOMAIN sessions :
                          /\ OwnerOf(tasks, sessions, i) = last.sub
                          /\ sessions[i].scheduled_start_at < last.payload.to_at
                          /\ sessions[i].scheduled_end_at > last.payload.from_at}
       /\ ResultAscending
       /\ DOMAIN last.task_titles = DOMAIN last.result
       /\ \A k \in DOMAIN last.result :
              last.task_titles[k] = tasks[sessions[last.result[k]].task_id].title

\* A timeline returned two sessions with a retitled task, and left out a
\* session of the caller that ends where the window starts.
C21_Witness ==
    /\ last.op = "list_range" /\ last.outcome = OK
    /\ Len(last.result) = 2
    /\ \E k \in DOMAIN last.task_titles : last.task_titles[k] = <<"b">>
    /\ \E i \in DOMAIN sessions :
          /\ OwnerOf(tasks, sessions, i) = last.sub
          /\ sessions[i].scheduled_end_at = last.payload.from_at

\* C22: the list of the sessions of a task returns exactly the sessions of
\* that task, when the caller owns it, that end at or after date_from, start
\* at or before date_to and have the given status, for each filter that is
\* given, in ascending order of start; for a task the caller does not own it
\* returns no session.
C22_ListForTaskFilters ==
    (/\ last.op = "list_sessions"
     /\ last.payload.session_status # None
            => Val(last.payload.session_status) \in TaskSessionStatus)
    => /\ last.outcome = OK
       /\ ResultSet = {i \in DOMAIN sessions :
                          /\ sessions[i].task_id = last.task_id
                          /\ Owns(tasks, last.sub, last.task_id)
                          /\ last.payload.date_from # None
                                => sessions[i].scheduled_end_at >= Val(last.payload.date_from)
                          /\ last.payload.date_to # None
                                => sessions[i].scheduled_start_at <= Val(last.payload.date_to)
                          /\ last.payload.session_status # None
                                => sessions[i].status = Val(last.payload.session_status)}
       /\ ResultAscending
       /\ ~Owns(tasks, last.sub, last.task_id) => last.result = <<>>

\* A list with both dates returned a session that ends at date_from and one
\* that starts at date_to.
C22_Witness ==
    /\ last.op = "list_sessions" /\ last.outcome = OK
    /\ last.payload.date_from # None /\ last.payload.date_to # None
    /\ \E k \in DOMAIN last.result :
          sessions[last.result[k]].scheduled_end_at = Val(last.payload.date_from)
    /\ \E k \in DOMAIN last.result :
          sessions[last.result[k]].scheduled_start_at = Val(last.payload.date_to)
    /\ \E i \in DOMAIN sessions : sessions[i].task_id = last.task_id /\ i \notin ResultSet

\* The task ids a task response asks the counts of
CountedTasks ==
    IF last.op \in {"get_task", "get_tasks"} THEN ResultSet ELSE {last.task_id}

\* C23: the counts of a task response have an entry for every task asked
\* for, the number of sessions of that task now in the store and the number
\* of those that are COMPLETED; a task without sessions has <<0, 0>>.
C23_CountsAgreeWithStore ==
    (last.op \in {"get_task", "get_tasks", "create_task", "update_task"} /\ last.outcome = OK)
    => /\ DOMAIN last.counts = CountedTasks
       /\ \A tid \in CountedTasks :
              /\ last.counts[tid][1] = Cardinality(SessionsOf(sessions, tid))
              /\ last.counts[tid][2] =
                     Cardinality({i \in SessionsOf(sessions, tid) : sessions[i].status = COMPLETED})
              /\ last.counts[tid][2] <= last.counts[tid][1]
              /\ SessionsOf(sessions, tid) = {} => last.counts[tid] = <<0, 0>>

\* A task list returned a task without sessions and a task with two
\* sessions, one of them COMPLETED.
C23_Witness ==
    /\ last.op = "get_tasks" /\ last.outcome = OK
    /\ \E t \in DOMAIN last.counts : last.counts[t] = <<0, 0>>
    /\ \E t \in DOMAIN last.counts : last.counts[t] = <<2, 1>>

\* The tasks of the caller, and the place of one in the list newest first
\* (0 for the highest id)
OwnTasks == {t \in DOMAIN tasks : tasks[t].created_by_sub = last.sub}

Place(t) == Cardinality({u \in OwnTasks : u > t})

\* C24: a task list with a limit in 1..500 and an offset >= 0 succeeds and
\* returns tasks of the caller only, in descending order of id: exactly
\* those at the places offset .. offset + limit - 1 of the caller's tasks
\* newest first, so at most limit tasks, and none for a caller without tasks.
C24_ListTasksPage ==
    (/\ last.op = "get_tasks"
     /\ last.payload.limit \in 1..500
     /\ last.payload.offset >= 0)
    => /\ last.outcome = OK
       /\ ResultSet = {t \in OwnTasks :
                          /\ Place(t) >= last.payload.offset
                          /\ Place(t) < last.payload.offset + last.payload.limit}
       /\ \A i \in DOMAIN last.result : \A j \in DOMAIN last.result :
              i < j => last.result[i] > last.result[j]
       /\ Len(last.result) <= last.payload.limit
       /\ OwnTasks = {} => last.result = <<>>

\* A user with two tasks asked for one task after the first and got the
\* older one.
C24_Witness ==
    /\ last.op = "get_tasks" /\ last.outcome = OK
    /\ last.payload.limit = 1 /\ last.payload.offset = 1
    /\ Cardinality(OwnTasks) = 2
    /\ \E t \in OwnTasks : last.result = <<t>> /\ Place(t) = 1

\* Two users have a task each; one listed with room for both and got one's own.
C24_OwnOnly ==
    /\ last.op = "get_tasks" /\ last.outcome = OK
    /\ last.payload.limit = 2 /\ last.payload.offset = 0
    /\ Len(last.result) = 1
    /\ Cardinality(DOMAIN tasks) = 2

C26_PlannedEndAfterStart ==
    \A t \in DOMAIN tasks :
        (tasks[t].planned_start_at # None /\ tasks[t].planned_end_at # None)
        => Val(tasks[t].planned_end_at) > Val(tasks[t].planned_start_at)

\* C26, on the update path: no successful task Update leaves a task with
\* planned_end_at before planned_start_at.
C26_UpdateKeepsEndNotBeforeStart ==
    (last.op = "update_task" /\ last.outcome = OK)
    => ~(/\ tasks[last.task_id].planned_start_at # None
         /\ tasks[last.task_id].planned_end_at # None
         /\ Val(tasks[last.task_id].planned_end_at)
                < Val(tasks[last.task_id].planned_start_at))

\* C29: a successful session Create stores the start of the payload and, as
\* the end, the explicit scheduled_end_at when the payload has one, with or
\* without a duration, and start + duration_minutes otherwise; a payload with
\* neither, with a duration <= 0 or with an explicit end <= start fails with
\* a validation error and nothing is inserted or changed.
C29_CreateResolvesEnd ==
    last.op = "create_session"
    => LET p == last.payload
       IN /\ last.outcome = OK
             => /\ sessions[last.session_id].scheduled_start_at = p.scheduled_start_at
                /\ sessions[last.session_id].scheduled_end_at =
                      (IF p.scheduled_end_at # None THEN Val(p.scheduled_end_at)
                       ELSE p.scheduled_start_at + Val(p.duration_minutes) * Minute)
          /\ (\/ p.scheduled_end_at = None /\ p.duration_minutes = None
              \/ p.duration_minutes # None /\ Val(p.duration_minutes) <= 0
              \/ p.scheduled_end_at # None /\ Val(p.scheduled_end_at) <= p.scheduled_start_at)
             => /\ last.outcome \in {RequestValidationError, ValidationError}
                /\ StoreUnchanged

\* A session was created from a payload with an explicit end and a duration
\* that disagree, and has the explicit end.
C29_Witness ==
    /\ last.op = "create_session" /\ last.outcome = OK
    /\ last.payload.scheduled_end_at # None
    /\ last.payload.duration_minutes # None
    /\ Val(last.payload.scheduled_end_at)
          # last.payload.scheduled_start_at + Val(last.payload.duration_minutes) * Minute
    /\ sessions[last.session_id].scheduled_end_at = Val(last.payload.scheduled_end_at)

\* A session was created from a start and a duration.
C29_FromDuration ==
    /\ last.op = "create_session" /\ last.outcome = OK
    /\ last.payload.scheduled_end_at = None
    /\ sessions[last.session_id].scheduled_end_at = last.payload.scheduled_start_at + Minute

----------------------------------------------------------------------------
\* Interleaved create-session requests with session updates between their steps

RacedUpdateInputs ==
    {[status |-> Some(COMPLETED)],
     [scheduled_start_at |-> Some(0)],
     [scheduled_end_at |-> Some(MaxTime), status |-> Some(COMPLETED)]}

NextRaced ==
    \/ NextConc
    \/ \E sub \in Users, task_id \in TaskIds, session_id \in SessionIds,
          payload \in RacedUpdateInputs :
            UpdateSession(sub, task_id, session_id, payload) /\ UNCHANGED authvars

SpecRaced == InitConc /\ [][NextRaced]_vars

\* The step that handles a session Update
UpdateSessionStep == last = Idle /\ last'.op = "update_session"

----------------------------------------------------------------------------
\* Authentication: bearer tokens, the token bundles kept in Redis under an
\* opaque session id, and the OIDC login flow.  A dict (the signed session
\* cookie, a token bundle) is a function whose DOMAIN is the set of its keys.

Unauthorized == "Unauthorized"
ServiceUnavailable == "ServiceUnavailable"
HTTPStatusError == "HTTPStatusError"
Found == "Found"

Put(d, k, v) == [x \in DOMAIN d \cup {k} |-> IF x = k THEN v ELSE d[x]]
Pop(d, ks) == [x \in DOMAIN d \ ks |-> d[x]]

\* A URL: its origin (scheme and host; "" when it has none) and its path
Url(origin, path) == [origin |-> origin, path |-> path]
FrontendOrigin == "frontend"
OtherOrigin == "elsewhere"
AuthorizationEndpoint == "idp/auth"
EndSessionEndpoint == "idp/logout"

\* _sanitize_return_to: a path that begins with "/" or a URL of the frontend
\* origin; anything else falls back to the frontend origin
_sanitize_return_to(return_to) ==
    LET default == Url(FrontendOrigin, <<>>)
    IN IF return_to = None THEN default
       ELSE LET parsed == Val(return_to)
            IN IF parsed.origin = "" /\ parsed.path = <<>> THEN default
               ELSE IF parsed.origin = "" /\ parsed.path[1] = "/"
                    THEN Url(FrontendOrigin, parsed.path)
               ELSE IF parsed.origin = FrontendOrigin
                    THEN Url(FrontendOrigin,
                             IF parsed.path = <<>> THEN <<"/">> ELSE parsed.path)
               ELSE default

\* An access token: a JWT for subject sub that expires at exp; genuine when
\* its key id is one of the realm's keys and its RS256 signature, audience and
\* issuer verify
AccessToken(sub, exp, genuine) == [sub |-> sub, exp |-> exp, genuine |-> genuine]

\* What the identity provider answers while one request is handled: metadata,
\* whether the discovery document and the key set can be had (from the cache
\* or fetched); status, expires_in and grants, the token endpoint's answer
\* (grants: which of refresh_token and id_token it carries)
IdpAnswer(metadata, status, expires_in, grants) ==
    [metadata |-> metadata, status |-> status, expires_in |-> expires_in,
     grants |-> grants]

\* A call raised exc, or returned v
Raised(exc) == [raised |-> Some(exc), value |-> None]
Returned(v) == [raised |-> None, value |-> v]

\* Mutant: a bundle counts as expired only at its expiry
IsExpiredWithoutSkew(tokens, t) ==
    \/ "expires_at" \notin DOMAIN tokens
    \/ t >= tokens.expires_at

\* is_expired: no expires_at, or the expiry is within the skew
is_expired(tokens, t) ==
    \/ "expires_at" \notin DOMAIN tokens
    \/ t >= tokens.expires_at - Skew

\* The tokens of a token endpoint answer for user sub.  A refresh token and an
\* id token carry the user they were issued to.
TokenBundle(sub, idp, t) ==
    [access_token |-> AccessToken(sub, t + idp.expires_in, TRUE),
     expires_at |-> t + idp.expires_in]
    @@ [k \in idp.grants |-> sub]

\* refresh_tokens_via_oidc: None without a refresh token or on a non-200
\* answer; the discovery document it needs may be out of reach (503)
refresh_tokens_via_oidc(refresh_token, idp, t) ==
    IF refresh_token = "" THEN Returned(None)
    ELSE IF ~idp.metadata THEN Raised(ServiceUnavailable)
    ELSE IF idp.status # 200 THEN Returned(None)
    ELSE Returned(Some(TokenBundle(refresh_token, idp, t)))

\* _get_bearer_token: the credentials of an Authorization header of scheme bearer
_get_bearer_token(authorization) ==
    IF authorization # None /\ Val(authorization).scheme = "bearer"
    THEN Some(Val(authorization).credentials)
    ELSE None

\* _get_session_access_token: the access token of the bundle stored under the
\* sid cookie, refreshed (and stored again) when it has expired; with it, the
\* Redis the call leaves
_get_session_access_token(sid, idp, t) ==
    IF sid = None \/ Val(sid) \notin DOMAIN redis
    THEN [raised |-> None, value |-> None, redis |-> redis]
    ELSE LET stored == redis[Val(sid)]
         IN IF is_expired(stored, t)
            THEN LET refreshed == refresh_tokens_via_oidc(
                                      Get(stored, "refresh_token", ""), idp, t)
                 IN IF refreshed.raised # None
                    THEN [raised |-> refreshed.raised, value |-> None, redis |-> redis]
                    ELSE IF refreshed.value = None
                    THEN [raised |-> None, value |-> None, redis |-> redis]
                    ELSE [raised |-> None,
                          value |-> Some(Val(refreshed.value).access_token),
                          redis |-> [redis EXCEPT ![Val(sid)] = Val(refreshed.value)]]
            ELSE [raised |-> None, value |-> Some(stored.access_token), redis |-> redis]

\* Mutant: a request that presents no token is let through, for nobody
VerifyTokenLenient(bearer, sid, idp, t) ==
    LET found == IF bearer # None
                 THEN [raised |-> None, value |-> bearer, redis |-> redis]
                 ELSE _get_session_access_token(sid, idp, t)
    IN IF found.raised # None
       THEN [outcome |-> Val(found.raised), sub |-> "", redis |-> found.redis]
       ELSE IF found.value = None
       THEN [outcome |-> OK, sub |-> "", redis |-> found.redis]
       ELSE IF ~idp.metadata
       THEN [outcome |-> ServiceUnavailable, sub |-> "", redis |-> found.redis]
       ELSE IF ~Val(found.value).genuine \/ t >= Val(found.value).exp
       THEN [outcome |-> Unauthorized, sub |-> "", redis |-> found.redis]
       ELSE [outcome |-> OK, sub |-> Val(found.value).sub, redis |-> found.redis]

\* verify_token, get_current_user: the bearer token or else the session's
\* token; 401 without one; 503 when the key set or the discovery document is
\* out of reach; 401 for a token that is not genuine or has expired; else the
\* token's subject
verify_token(bearer, sid, idp, t) ==
    LET found == IF bearer # None
                 THEN [raised |-> None, value |-> bearer, redis |-> redis]
                 ELSE _get_session_access_token(sid, idp, t)
    IN IF found.raised # None
       THEN [outcome |-> Val(found.raised), sub |-> "", redis |-> found.redis]
       ELSE IF found.value = None
       THEN [outcome |-> Unauthorized, sub |-> "", redis |-> found.redis]
       ELSE IF ~idp.metadata
       THEN [outcome |-> ServiceUnavailable, sub |-> "", redis |-> found.redis]
       ELSE IF ~Val(found.value).genuine \/ t >= Val(found.value).exp
       THEN [outcome |-> Unauthorized, sub |-> "", redis |-> found.redis]
       ELSE [outcome |-> OK, sub |-> Val(found.value).sub, redis |-> found.redis]

\* What a request to a protected endpoint presented, when, and the Redis it found
Presented(authorization, sid, idp) ==
    [authorization |-> authorization, sid |-> sid, idp |-> idp, at |-> now,
     redis |-> redis]

\* get_current_user: the subject of the verified token
get_current_user(authorization, sid, idp) ==
    verify_token(_get_bearer_token(authorization), sid, idp, now)

\* Depends(get_current_user) runs before the handler: what it leaves in Redis
Authenticate(authorization, sid, idp) ==
    /\ last = Idle
    /\ credentials' = Presented(authorization, sid, idp)
    /\ redis' = get_current_user(authorization, sid, idp).redis
    /\ UNCHANGED <<session, next_sid, next_state, now>>

\* The request is answered by the exception of a dependency; no handler runs
Refuse(op, outcome) ==
    /\ last = Idle
    /\ last' = Request(op, "", 0, 0, <<>>, outcome)
    /\ UNCHANGED <<store, txn>>

\* GET /users/me: get_me
GetMe(sub) ==
    /\ last = Idle
    /\ last' = Request("get_me", sub, 0, 0, <<>>, OK)
    /\ UNCHANGED <<store, txn>>

\* GET /users/me with the credentials it presents
get_me(authorization, sid, idp) ==
    LET current_user == get_current_user(authorization, sid, idp)
    IN /\ Authenticate(authorization, sid, idp)
       /\ IF current_user.outcome = OK
          THEN GetMe(current_user.sub)
          ELSE Refuse("get_me", current_user.outcome)

\* GET /tasks/ with the credentials it presents
get_tasks(authorization, sid, idp, limit, offset) ==
    LET current_user == get_current_user(authorization, sid, idp)
    IN /\ Authenticate(authorization, sid, idp)
       /\ IF current_user.outcome = OK
          THEN GetTasks(current_user.sub, limit, offset)
          ELSE Refuse("get_tasks", current_user.outcome)

\* POST /tasks/ with the credentials it presents
create_task(authorization, sid, idp, payload) ==
    LET current_user == get_current_user(authorization, sid, idp)
    IN /\ Authenticate(authorization, sid, idp)
       /\ IF current_user.outcome = OK
          THEN CreateTask(current_user.sub, payload)
          ELSE Refuse("create_task", current_user.outcome)

\* PATCH /tasks/{task_id} with the credentials it presents
update_task(authorization, sid, idp, task_id, payload) ==
    LET current_user == get_current_user(authorization, sid, idp)
    IN /\ Authenticate(authorization, sid, idp)
       /\ IF current_user.outcome = OK
          THEN UpdateTask(current_user.sub, task_id, payload)
          ELSE Refuse("update_task", current_user.outcome)

\* DELETE /tasks/{task_id} with the credentials it presents
delete_task(authorization, sid, idp, task_id) ==
    LET current_user == get_current_user(authorization, sid, idp)
    IN /\ Authenticate(authorization, sid, idp)
       /\ IF current_user.outcome = OK
          THEN DeleteTask(current_user.sub, task_id)
          ELSE Refuse("delete_task", current_user.outcome)

\* A request of the login flow, its answer and what it found: location, where
\* a redirect leads; token_exchange, whether the token endpoint was asked;
\* set_cookie, the session id the answer sets as cookie; delete_cookie,
\* whether the answer clears that cookie
AuthReply(op, browser, params, outcome, location, token_exchange, set_cookie, delete_cookie) ==
    [op |-> op, sub |-> "", browser |-> browser, payload |-> params,
     outcome |-> outcome, location |-> location, token_exchange |-> token_exchange,
     set_cookie |-> set_cookie, delete_cookie |-> delete_cookie,
     before |-> [tasks |-> tasks, sessions |-> sessions, redis |-> redis,
                 session |-> session]]

\* GET /auth/login: login
Login(b, return_to, idp) ==
    /\ last = Idle
    /\ UNCHANGED <<store, txn, redis, next_sid, now, credentials>>
    /\ IF ~idp.metadata
       THEN /\ last' = AuthReply("login", b, [return_to |-> return_to],
                                 ServiceUnavailable, None, FALSE, None, FALSE)
            /\ UNCHANGED <<session, next_state>>
       ELSE /\ next_state <= MaxState
            /\ session' = [session EXCEPT ![b] =
                   Put(Put(Put(Put(@, "oauth_state", next_state),
                               "oauth_nonce", next_state),
                           "pkce_verifier", next_state),
                       "post_login_redirect",
                       _sanitize_return_to(
                           IF return_to = None THEN Some(Url(FrontendOrigin, <<>>))
                           ELSE return_to))]
            /\ next_state' = next_state + 1
            /\ last' = AuthReply("login", b, [return_to |-> return_to], Found,
                                 Some([url |-> AuthorizationEndpoint,
                                       state |-> next_state]),
                                 FALSE, None, FALSE)

\* Mutant: any state is taken once a login has saved one
CallbackRefusedWithoutLogin(saved_state, verifier, state) ==
    saved_state = None \/ verifier = None

\* oidc_callback: the callback is not honoured
CallbackRefused(saved_state, verifier, state) ==
    saved_state = None \/ verifier = None \/ state # Val(saved_state)

\* GET /auth/callback: oidc_callback.  code stands for the user who signed in
\* at the identity provider.
Callback(b, code, state, idp) ==
    LET saved_state == IF "oauth_state" \in DOMAIN session[b]
                       THEN Some(session[b].oauth_state) ELSE None
        verifier == IF "pkce_verifier" \in DOMAIN session[b]
                    THEN Some(session[b].pkce_verifier) ELSE None
        params == [code |-> code, state |-> state]
    IN /\ last = Idle
       /\ UNCHANGED <<store, txn, next_state, now, credentials>>
       /\ IF code = None \/ state = None
          THEN /\ last' = AuthReply("callback", b, params, RequestValidationError,
                                    None, FALSE, None, FALSE)
               /\ UNCHANGED <<redis, session, next_sid>>
          ELSE IF CallbackRefused(saved_state, verifier, Val(state))
          THEN /\ last' = AuthReply("callback", b, params, Found,
                                    Some(Url(FrontendOrigin, <<>>)), FALSE, None, FALSE)
               /\ UNCHANGED <<redis, session, next_sid>>
          ELSE IF ~idp.metadata
          THEN /\ last' = AuthReply("callback", b, params, ServiceUnavailable,
                                    None, FALSE, None, FALSE)
               /\ UNCHANGED <<redis, session, next_sid>>
          ELSE IF idp.status # 200
          THEN /\ last' = AuthReply("callback", b, params, HTTPStatusError,
                                    None, TRUE, None, FALSE)
               /\ UNCHANGED <<redis, session, next_sid>>
          ELSE /\ next_sid <= MaxSid
               /\ session' = [session EXCEPT ![b] =
                      Pop(@, {"oauth_state", "oauth_nonce", "pkce_verifier",
                              "post_login_redirect"})]
               /\ redis' = redis @@ (next_sid :> TokenBundle(Val(code), idp, now))
               /\ next_sid' = next_sid + 1
               /\ last' = AuthReply("callback", b, params, Found,
                                    Some(_sanitize_return_to(
                                        IF "post_login_redirect" \in DOMAIN session[b]
                                        THEN Some(session[b].post_login_redirect)
                                        ELSE None)),
                                    TRUE, Some(next_sid), FALSE)

\* GET /auth/logout: logout
Logout(sid, return_to, idp) ==
    /\ last = Idle
    /\ UNCHANGED <<store, txn, session, next_sid, next_state, now, credentials>>
    /\ IF ~idp.metadata
       THEN /\ last' = AuthReply("logout", "", [sid |-> sid, return_to |-> return_to],
                                 ServiceUnavailable, None, FALSE, None, FALSE)
            /\ UNCHANGED redis
       ELSE LET id_token == IF sid # None /\ Val(sid) \in DOMAIN redis
                            THEN Get(redis[Val(sid)], "id_token", "")
                            ELSE ""
                post_logout_redirect_uri ==
                    IF return_to = None THEN Url(FrontendOrigin, <<>>)
                    ELSE Val(return_to)
            IN /\ redis' = IF sid # None THEN Remove(redis, Val(sid)) ELSE redis
               /\ last' = AuthReply("logout", "", [sid |-> sid, return_to |-> return_to],
                                    Found,
                                    IF id_token = ""
                                    THEN Some(post_logout_redirect_uri)
                                    ELSE Some([url |-> EndSessionEndpoint,
                                               id_token_hint |-> id_token,
                                               post_logout_redirect_uri |->
                                                   post_logout_redirect_uri]),
                                    FALSE, None, sid # None)

\* Time passes between two requests
Tick ==
    /\ last = Idle
    /\ now < MaxNow
    /\ now' = now + 1
    /\ UNCHANGED <<store, last, txn, redis, session, next_sid, next_state, credentials>>

----------------------------------------------------------------------------
\* Requests executed one at a time, each with the credentials it presents,
\* logins and logouts among them

AuthorizationHeaders ==
    {None,
     Some([scheme |-> "bearer", credentials |-> AccessToken("u1", MaxNow + 1, TRUE)]),
     Some([scheme |-> "bearer", credentials |-> AccessToken("u1", 1, TRUE)]),
     Some([scheme |-> "bearer", credentials |-> AccessToken("u1", MaxNow + 1, FALSE)]),
     Some([scheme |-> "basic", credentials |-> AccessToken("u1", MaxNow + 1, TRUE)])}

SidCookies == {None} \cup {Some(sid) : sid \in Sids}

\* What a request to a protected endpoint presents: a header, a cookie, or a
\* header that does not verify beside a cookie
CredentialInputs ==
    {[authorization |-> a, sid |-> None] : a \in AuthorizationHeaders}
    \cup {[authorization |-> None, sid |-> c] : c \in SidCookies}
    \cup {[authorization |-> Some([scheme |-> "bearer",
                                    credentials |-> AccessToken("u1", MaxNow + 1, FALSE)]),
            sid |-> Some(1)]}

IdpAnswers ==
    {IdpAnswer(TRUE, 200, Skew + 1, {"refresh_token", "id_token"}),
     IdpAnswer(TRUE, 200, Skew, {}),
     IdpAnswer(TRUE, 400, Skew, {}),
     IdpAnswer(FALSE, 200, Skew, {})}

ReturnToQueries ==
    {None, Some(Url("", <<"/", "t">>)), Some(Url(OtherOrigin, <<"/">>))}

LogoutReturnToQueries == {None, Some(Url(OtherOrigin, <<"/">>))}

CodeQueries == {None, Some("u1"), Some("u2")}

StateQueries == {None, Some(0)} \cup {Some(s) : s \in States}

AuthTaskUpdateInputs == {[title |-> Some(<<"b">>)]}

InitAuth ==
    /\ tasks = <<>>
    /\ sessions = <<>>
    /\ next_task_id = MaxTaskId
    /\ next_session_id = 1
    /\ last = Idle
    /\ txn = NoTxn
    /\ AuthInit

NextAuth ==
    \/ Respond
    \/ Tick
    \/ \E b \in Browsers, return_to \in ReturnToQueries, idp \in IdpAnswers :
            Login(b, return_to, idp)
    \/ \E b \in Browsers, code \in CodeQueries, state \in StateQueries,
          idp \in IdpAnswers :
            Callback(b, code, state, idp)
    \/ \E sid \in SidCookies, return_to \in LogoutReturnToQueries, idp \in IdpAnswers :
            Logout(sid, return_to, idp)
    \/ \E c \in CredentialInputs, idp \in IdpAnswers :
            get_me(c.authorization, c.sid, idp)
    \/ \E c \in CredentialInputs, idp \in IdpAnswers :
            get_tasks(c.authorization, c.sid, idp, 100, 0)
    \/ \E c \in CredentialInputs, idp \in IdpAnswers :
            create_task(c.authorization, c.sid, idp, NewTask)
    \/ \E c \in CredentialInputs, idp \in IdpAnswers, payload \in AuthTaskUpdateInputs :
            update_task(c.authorization, c.sid, idp, MaxTaskId, payload)
    \/ \E c \in CredentialInputs, idp \in IdpAnswers :
            delete_task(c.authorization, c.sid, idp, MaxTaskId)

SpecAuth == InitAuth /\ [][NextAuth]_vars

----------------------------------------------------------------------------
\* Requests without credentials, callbacks without a login

ProtectedOps == {"get_tasks", "create_task", "update_task", "delete_task", "get_me"}

\* The request being handled carries no Authorization header of scheme bearer
NoBearerToken ==
    \/ credentials.authorization = None
    \/ Val(credentials.authorization).scheme # "bearer"

\* The bundle the request's sid cookie names, as the request found it
PresentedBundle == credentials.redis[Val(credentials.sid)]

\* The request's sid cookie names a bundle that had expired when it arrived
PresentedBundleExpired ==
    /\ credentials.sid # None
    /\ Val(credentials.sid) \in DOMAIN credentials.redis
    /\ \/ "expires_at" \notin DOMAIN PresentedBundle
       \/ credentials.at >= PresentedBundle.expires_at - Skew

\* The request's sid cookie yields no access token: there is no cookie, no
\* bundle under it, or the bundle has expired and cannot be refreshed (it has
\* no refresh token, or the token endpoint does not answer 200)
NoSessionToken ==
    \/ credentials.sid = None
    \/ Val(credentials.sid) \notin DOMAIN credentials.redis
    \/ /\ PresentedBundleExpired
       /\ \/ "refresh_token" \notin DOMAIN PresentedBundle
          \/ credentials.idp.metadata /\ credentials.idp.status # 200

\* The request carries a bearer token that is forged or has expired, and the
\* realm's keys can be had to tell
BadBearerToken ==
    /\ ~NoBearerToken
    /\ credentials.idp.metadata
    /\ \/ ~Val(credentials.authorization).credentials.genuine
       \/ credentials.at >= Val(credentials.authorization).credentials.exp

\* C27: a request to a task endpoint (list, create, update, delete) or to
\* /users/me that carries no bearer token and whose sid cookie yields no access
\* token is answered 401 Unauthorized, and so is one whose bearer token does
\* not verify; a request that is not let in (401, or 503 when the identity
\* provider is out of reach) changes no task, no task session and no stored
\* token bundle.
C27_UnauthorizedWithoutCredentials ==
    last.op \in ProtectedOps
    => /\ (NoBearerToken /\ NoSessionToken) => last.outcome = Unauthorized
       /\ BadBearerToken => last.outcome = Unauthorized
       /\ last.sub = ""
          => /\ last.outcome \in {Unauthorized, ServiceUnavailable}
             /\ StoreUnchanged
             /\ redis = credentials.redis

\* A delete of an existing task was answered 401: the request carried only
\* the sid cookie of an expired bundle that could not be refreshed.
C27_Witness ==
    /\ last.op = "delete_task" /\ last.outcome = Unauthorized
    /\ NoBearerToken
    /\ PresentedBundleExpired
    /\ MaxTaskId \in DOMAIN tasks
    /\ tasks[MaxTaskId].created_by_sub = PresentedBundle.access_token.sub

\* The step that handles a callback
CallbackStep == last = Idle /\ last'.op = "callback"

\* The browser's session cookie holds no saved state or no verifier, or the
\* callback's state is not the saved one
NotHonourable(cookie, params) ==
    \/ "oauth_state" \notin DOMAIN cookie
    \/ "pkce_verifier" \notin DOMAIN cookie
    \/ params.state = None
    \/ Val(params.state) # cookie.oauth_state

\* C28: a callback that finds no saved state or verifier in its browser's
\* session, or whose state is not the saved one, asks the token endpoint
\* nothing, stores no token bundle, hands out no session id and sets no
\* cookie, and (when it carries a code and a state) redirects to the frontend
\* origin; and a state gets saved in a browser's session only by a login in
\* that browser, which issues that state, fresh, in its redirect.
C28_CallbackNeedsLoginState ==
    [][/\ CallbackStep
          => (NotHonourable(session[last'.browser], last'.payload)
              => /\ ~last'.token_exchange
                 /\ last'.set_cookie = None
                 /\ redis' = redis
                 /\ next_sid' = next_sid
                 /\ session' = session
                 /\ (last'.payload.code # None /\ last'.payload.state # None)
                    => /\ last'.outcome = Found
                       /\ last'.location = Some(Url(FrontendOrigin, <<>>)))
       /\ \A b \in Browsers :
             (/\ "oauth_state" \in DOMAIN session'[b]
              /\ \/ "oauth_state" \notin DOMAIN session[b]
                 \/ session'[b].oauth_state # session[b].oauth_state)
             => /\ last'.op = "login"
                /\ last'.browser = b
                /\ last'.outcome = Found
                /\ Val(last'.location).state = session'[b].oauth_state
                /\ session'[b].oauth_state = next_state
                /\ \A other \in Browsers \ {b} :
                      "oauth_state" \in DOMAIN session[other]
                      => session[other].oauth_state # next_state
      ]_vars

\* A callback brought the state issued to the other browser's login, while its
\* own browser had a saved state: it was sent to the frontend origin and
\* nothing was stored.
C28_Witness ==
    /\ last.op = "callback" /\ last.outcome = Found
    /\ last.location = Some(Url(FrontendOrigin, <<>>))
    /\ ~last.token_exchange
    /\ "oauth_state" \in DOMAIN last.before.session[last.browser]
    /\ \E other \in Browsers \ {last.browser} :
          /\ "oauth_state" \in DOMAIN last.before.session[other]
          /\ last.payload.state = Some(last.before.session[other].oauth_state)
    /\ redis = last.before.redis

----------------------------------------------------------------------------
\* One user's requests executed one at a time: task updates that set a
\* status, session creates, completions and deletes, and the reads

LifecycleTaskUpdateInputs ==
    {[status |-> Some(TASK_COMPLETED)], [status |-> Some(REMOVED)],
     [title |-> Some(<<"b">>)]}

LifecycleSessionUpdateInputs == {[status |-> Some(COMPLETED)]}

NextLifecycle ==
    \/ Respond
    \/ CreateTask("u1", NewTask) /\ UNCHANGED authvars
    \/ \E task_id \in TaskIds, payload \in LifecycleTaskUpdateInputs :
            UpdateTask("u1", task_id, payload) /\ UNCHANGED authvars
    \/ \E task_id \in TaskIds : DeleteTask("u1", task_id) /\ UNCHANGED authvars
    \/ \E task_id \in TaskIds, payload \in UnitSessionCreateInputs :
            CreateSession("u1", task_id, payload) /\ UNCHANGED authvars
    \/ \E task_id \in TaskIds, session_id \in SessionIds,
          payload \in LifecycleSessionUpdateInputs :
            UpdateSession("u1", task_id, session_id, payload) /\ UNCHANGED authvars
    \/ \E task_id \in TaskIds, session_id \in SessionIds :
            DeleteSession("u1", task_id, session_id) /\ UNCHANGED authvars
    \/ GetTasks("u1", 100, 0) /\ UNCHANGED authvars
    \/ \E task_id \in TaskIds : GetTask("u1", task_id) /\ UNCHANGED authvars
    \/ \E task_id \in TaskIds :
            GetSessionsForTask("u1", task_id, None, None, None) /\ UNCHANGED authvars
    \/ GetSessionsInRange("u1", 0, MaxTime) /\ UNCHANGED authvars

SpecLifecycle == Init /\ [][NextLifecycle]_vars

\* The requests that only read
ReadOps == {"get_tasks", "get_task", "list_sessions", "list_range"}

\* C31: the status of a task changes only by a task Update whose payload
\* supplies status, or by a session Create on a task that had no session,
\* which leaves it PLANNED; a session Update (also one that completes the last
\* open session of its task), a session Delete and the reads leave every
\* task as it was.
C31_TaskStatusFrame ==
    last # Idle
    => /\ \A t \in DOMAIN tasks \cap DOMAIN last.before.tasks :
             tasks[t].status # last.before.tasks[t].status
             => \/ /\ last.op = "update_task" /\ last.task_id = t
                   /\ "status" \in DOMAIN last.payload
                \/ /\ last.op = "create_session" /\ last.task_id = t
                   /\ last.outcome = OK
                   /\ SessionsOf(last.before.sessions, t) = {}
                   /\ tasks[t].status = PLANNED
       /\ last.op \in {"update_session", "delete_session"} \cup ReadOps
          => tasks = last.before.tasks

\* A session Update completed the last open session of a task that has two
\* sessions; the task is still PLANNED.
C31_Witness ==
    /\ last.op = "update_session" /\ last.outcome = OK
    /\ Cardinality(SessionsOf(sessions, last.task_id)) = 2
    /\ \A i \in SessionsOf(sessions, last.task_id) : sessions[i].status = COMPLETED
    /\ last.before.sessions[last.session_id].status = INCOMPLETE
    /\ tasks[last.task_id].status = PLANNED

\* C32: a session created on a task that has no session at that moment leaves
\* the task PLANNED, whatever its status was: BACKLOG, PLANNED, or a
\* COMPLETED or REMOVED that a task Update had set, and also when the task had
\* sessions before that were all deleted.
C32_FirstSessionAlwaysPlans ==
    (/\ last.op = "create_session" /\ last.outcome = OK
     /\ SessionsOf(last.before.sessions, last.task_id) = {})
    => /\ tasks[last.task_id].status = PLANNED
       /\ SessionsOf(sessions, last.task_id) = {last.session_id}

\* The only task there ever was had been set REMOVED and its earlier session
\* deleted; a session was created on it again and it is PLANNED.
C32_Witness ==
    /\ last.op = "create_session" /\ last.outcome = OK
    /\ SessionsOf(last.before.sessions, last.task_id) = {}
    /\ last.before.tasks[last.task_id].status = REMOVED
    /\ next_task_id = 2
    /\ last.session_id >= 2
    /\ tasks[last.task_id].status = PLANNED

----------------------------------------------------------------------------
\* What one owner's requests depend on

\* The tasks of owner, and the sessions of these tasks
TasksPart(tsk, owner) ==
    [t \in {u \in DOMAIN tsk : tsk[u].created_by_sub = owner} |-> tsk[t]]

SessionsPart(tsk, sess, owner) == [i \in OwnedSessions(tsk, sess, owner) |-> sess[i]]

\* The outcome of a session Create in the store tsk, sess
CreateOutcomeIn(tsk, sess, sub, task_id, payload) ==
    IF ~SessionCreateValid(payload) THEN RequestValidationError
    ELSE IF ~Owns(tsk, sub, task_id) THEN NotFound
    ELSE LET times == _normalize_create_times(payload)
             overlap == _sessions_overlap(tsk, sess, sub, times.start_at, times.end_at, None)
         IN IF ~times.ok THEN ValidationError
            ELSE IF overlap.raised THEN MultipleResultsFound
            ELSE IF overlap.found THEN Conflict
            ELSE OK

\* The outcome of a session Update in the store tsk, sess
UpdateOutcomeIn(tsk, sess, sub, task_id, session_id, payload) ==
    IF ~SessionUpdateValid(payload) THEN RequestValidationError
    ELSE IF ~(/\ session_id \in DOMAIN sess
              /\ sess[session_id].task_id = task_id
              /\ Owns(tsk, sub, task_id)) THEN NotFound
    ELSE IF ~TimesSupplied(payload)
    THEN IF NullViolation(payload, {"status"}) THEN IntegrityError ELSE OK
    ELSE LET new_start == ResultingStart(sess[session_id], payload)
             new_end == ResultingEnd(sess[session_id], payload)
         IN IF new_start = None \/ new_end = None THEN TypeError
            ELSE IF Val(new_end) <= Val(new_start) THEN ValidationError
            ELSE LET overlap == _sessions_overlap(tsk, sess, sub, Val(new_start),
                                                  Val(new_end), Some(session_id))
                 IN IF overlap.raised THEN MultipleResultsFound
                    ELSE IF overlap.found THEN Conflict
                    ELSE IF NullViolation(payload, {"status"}) THEN IntegrityError
                    ELSE OK

\* C33: overlap checking is per owner.  The outcome of a session Create or
\* Update is the outcome the same request has in the store that holds the
\* caller's tasks and sessions and nothing else, so it is the same in any two
\* stores that agree on them; a request that is refused for an overlap
\* overlaps a session of its caller.
C33_OutcomePerOwner ==
    /\ last.op = "create_session"
       => /\ last.outcome =
                CreateOutcomeIn(TasksPart(last.before.tasks, last.sub),
                                SessionsPart(last.before.tasks, last.before.sessions,
                                             last.sub),
                                last.sub, last.task_id, last.payload)
          /\ last.outcome = Conflict
             => Clashing(last.before.tasks, last.before.sessions, last.sub,
                         last.payload.scheduled_start_at, AskedEnd(last.payload)) # {}
    /\ last.op = "update_session"
       => last.outcome =
             UpdateOutcomeIn(TasksPart(last.before.tasks, last.sub),
                             SessionsPart(last.before.tasks, last.before.sessions,
                                          last.sub),
                             last.sub, last.task_id, last.session_id, last.payload)

\* A session was created that overlaps a session of another owner.
C33_Witness ==
    /\ last.op = "create_session" /\ last.outcome = OK
    /\ \E i \in DOMAIN last.before.sessions :
          /\ OwnerOf(last.before.tasks, last.before.sessions, i) # last.sub
          /\ Intersect(sessions[i].scheduled_start_at, sessions[i].scheduled_end_at,
                       sessions[last.session_id].scheduled_start_at,
                       sessions[last.session_id].scheduled_end_at)

----------------------------------------------------------------------------
\* Two session creates on one task at once

\* Requests t1 and t2 are creates by the task's owner on the same task, for
\* intervals that do not overlap; both found the task (neither came before
\* it was created), both have ended, neither by a dropped connection, the
\* task is still there, and no session is stored that a third request wrote
\* (the two began while there was none)
TwoCreatesOnOneTask(t1, t2) ==
    /\ t1 # t2
    /\ txn[t1].pc = "done" /\ txn[t2].pc = "done"
    /\ txn[t1].outcome \notin {"aborted", NotFound}
    /\ txn[t2].outcome \notin {"aborted", NotFound}
    /\ txn[t1].task_id = txn[t2].task_id
    /\ txn[t1].task_id \in DOMAIN tasks
    /\ txn[t1].sub = tasks[txn[t1].task_id].created_by_sub
    /\ txn[t2].sub = txn[t1].sub
    /\ ~Intersect(txn[t1].start_at, txn[t1].end_at, txn[t2].start_at, txn[t2].end_at)
    /\ DOMAIN sessions \subseteq {txn[t1].session_id, txn[t2].session_id}

\* C34: two session creates on the same task for intervals that do not
\* overlap, begun while the task has no session, both succeed however their
\* reads and commits interleave; both sessions are stored with the intervals
\* asked for, and the task is PLANNED once both have committed.
C34_ConcurrentFirstCreates ==
    \A t1 \in Txns : \A t2 \in Txns :
        TwoCreatesOnOneTask(t1, t2)
        => /\ txn[t1].outcome = OK /\ txn[t2].outcome = OK
           /\ txn[t1].session_id # txn[t2].session_id
           /\ \A t \in {t1, t2} :
                 /\ txn[t].session_id \in DOMAIN sessions
                 /\ sessions[txn[t].session_id].task_id = txn[t].task_id
                 /\ sessions[txn[t].session_id].scheduled_start_at = txn[t].start_at
                 /\ sessions[txn[t].session_id].scheduled_end_at = txn[t].end_at
           /\ tasks[txn[t1].task_id].status = PLANNED

\* Both requests counted no session before either committed, and both committed.
C34_Witness ==
    \E t1 \in Txns : \E t2 \in Txns :
        /\ TwoCreatesOnOneTask(t1, t2)
        /\ txn[t1].is_first_session /\ txn[t2].is_first_session
        /\ txn[t1].wrote = {"session", "status"}
        /\ txn[t2].wrote = {"session", "status"}
        /\ DOMAIN sessions = {txn[t1].session_id, txn[t2].session_id}
        /\ tasks[txn[t1].task_id].status = PLANNED

----------------------------------------------------------------------------
\* The stored planned_duration

\* C35: every stored task that has a planned_duration has one greater than
\* zero, a duration derived from planned_start_at and planned_end_at included.
C35_StoredDurationPositive ==
    \A t \in DOMAIN tasks :
        tasks[t].planned_duration # None => Val(tasks[t].planned_duration) > 0

\* The weaker statement: no stored planned_duration is below zero
C35_DerivedDurationNotNegative ==
    \A t \in DOMAIN tasks :
        tasks[t].planned_duration # None => Val(tasks[t].planned_duration) >= 0

----------------------------------------------------------------------------
\* Requests that present the sid cookie only

\* The request being handled went to a protected endpoint with no bearer
\* token and a sid cookie that names a stored bundle
SessionOnly ==
    /\ last.op \in ProtectedOps
    /\ NoBearerToken
    /\ credentials.sid # None
    /\ Val(credentials.sid) \in DOMAIN credentials.redis

\* C36: for a request that presents the sid cookie only.  A stored bundle that
\* has not expired (now < expires_at - skew) gives its access token, and Redis
\* is not written.  A bundle that has expired (no expires_at, or
\* now >= expires_at - skew) is refreshed with its refresh token: when the
\* token endpoint answers 200, the bundle made of that answer replaces the
\* stored one under the same session id and its access token is used; when
\* the bundle has no refresh token or the answer is not 200, the request is
\* answered 401 and Redis is left as it was.
C36_SessionTokenOrRefresh ==
    SessionOnly
    => LET sid == Val(credentials.sid)
           idp == credentials.idp
       IN /\ ~PresentedBundleExpired
             => /\ redis = credentials.redis
                /\ idp.metadata => last.sub = PresentedBundle.access_token.sub
          /\ (/\ PresentedBundleExpired
              /\ "refresh_token" \in DOMAIN PresentedBundle
              /\ idp.metadata /\ idp.status = 200)
             => /\ DOMAIN redis = DOMAIN credentials.redis
                /\ \A other \in DOMAIN redis \ {sid} : redis[other] = credentials.redis[other]
                /\ redis[sid].access_token =
                      AccessToken(PresentedBundle.refresh_token,
                                  credentials.at + idp.expires_in, TRUE)
                /\ redis[sid].expires_at = credentials.at + idp.expires_in
                /\ last.sub = PresentedBundle.refresh_token
          /\ (/\ PresentedBundleExpired
              /\ \/ "refresh_token" \notin DOMAIN PresentedBundle
                 \/ idp.metadata /\ idp.status # 200)
             => /\ last.outcome = Unauthorized
                /\ redis = credentials.redis

\* A request found its bundle expired, refreshed it, and was handled for the
\* user of the session; the bundle under its session id is a new one.
C36_Witness ==
    /\ SessionOnly
    /\ PresentedBundleExpired
    /\ last.op = "create_task" /\ last.outcome = OK
    /\ last.sub = PresentedBundle.refresh_token
    /\ redis[Val(credentials.sid)] # PresentedBundle
    /\ credentials.at > 0

\* C37: a stored bundle that contains a refresh token and an id token still
\* contains both after every step that keeps its session id, a successful
\* refresh whose answer omits them included.
C37_RefreshKeepsTokens ==
    [][\A sid \in DOMAIN redis \cap DOMAIN redis' :
          {"refresh_token", "id_token"} \subseteq DOMAIN redis[sid]
          => {"refresh_token", "id_token"} \subseteq DOMAIN redis'[sid]
      ]_vars

----------------------------------------------------------------------------
\* Logout

\* The step that handles a logout request that carries a sid cookie
LogoutStep == last = Idle /\ last'.op = "logout" /\ last'.payload.sid # None

\* C38: after a logout request that carries a sid cookie, no bundle is stored
\* under that session id, whether or not the bundle had an id token.
C38_LogoutDeletesBundle ==
    [][LogoutStep => Val(last'.payload.sid) \notin DOMAIN redis']_vars

\* What holds of logout: a logout request that is answered with a redirect
\* deletes the bundle of its sid cookie and clears the cookie; a session id
\* that names no bundle gets one only by a callback, which hands out an id
\* never used before; and a request that presents only a session id without
\* bundle is answered 401.
C38_AnsweredLogoutDeletesBundle ==
    [][/\ (LogoutStep /\ last'.outcome = Found)
          => /\ Val(last'.payload.sid) \notin DOMAIN redis'
             /\ last'.delete_cookie
       /\ \A sid \in DOMAIN redis' \ DOMAIN redis :
             /\ last'.op = "callback"
             /\ last'.set_cookie = Some(sid)
             /\ sid = next_sid
             /\ next_sid' = next_sid + 1
       /\ next_sid' >= next_sid
       /\ \A sid \in DOMAIN redis : sid < next_sid
       /\ (/\ last = Idle
           /\ last'.op \in ProtectedOps
           /\ credentials'.authorization = None
           /\ credentials'.sid # None
           /\ Val(credentials'.sid) \notin DOMAIN redis)
          => last'.outcome = Unauthorized
      ]_vars

\* A logout that was answered with a redirect found a bundle without id token
\* under its sid cookie and deleted it.
C38_AnsweredLogoutWitness ==
    /\ last.op = "logout" /\ last.outcome = Found
    /\ last.payload.sid # None
    /\ Val(last.payload.sid) \in DOMAIN last.before.redis
    /\ "id_token" \notin DOMAIN last.before.redis[Val(last.payload.sid)]
    /\ Val(last.payload.sid) \notin DOMAIN redis

====
